---- MODULE Spec2Model ----
(***************************************************************************)
(* A model of the orchestration layer of data_agent: the DAG data model    *)
(* (dag/models.py), the DAG executor (agent/executor.py) and the           *)
(* WebSocket / SSE chat turn with its privilege gate (api/websocket.py,    *)
(* api/chat.py, agent/deep_agent.py).                                      *)
(*                                                                         *)
(* It also covers the session manager and the Python sandbox that runs on  *)
(* its behalf (session/manager.py, sandbox/microsandbox.py).               *)
(*                                                                         *)
(* The specifications share the variables:                                 *)
(*   SpecSort  DAGPlan.topological_sort and DAGPlan.validate applied to    *)
(*             every plan of a bounded family (valid and invalid);         *)
(*   SpecExec  DAGExecutor.execute / aexecute on a fresh plan;             *)
(*   SpecRerun the same calls repeated on the plan they returned from;     *)
(*   SpecParams  the same calls on plans with ${id} references;            *)
(*   Spec      a WebSocket connection serving chat turns;                  *)
(*   SpecSession  the sessions of one server process;                      *)
(*   SpecHistory  the message history of one DataAgent over its turns;     *)
(*   SpecRoundTrip  DAGPlan.to_dict followed by DAGPlan.from_dict;         *)
(*   SpecModes  the ModeManager, its file and the routes of /api/modes;    *)
(*   SpecShared  the connections and requests that use one session id.     *)
(***************************************************************************)
EXTENDS Integers, Sequences, FiniteSets, TLC

VARIABLES
    \* ---- DAGPlan / DAGNode (dag/models.py) ----
    nodes,            \* DAGPlan.nodes: sequence of [id, deps, ndeps]
    status,           \* DAGNode.status of the node at each position
    sortResult,       \* outcome of the last topological_sort call
    validateErrors,   \* outcome of the last validate call
    params,           \* DAGNode.params of the node at each position
    \* ---- DAGExecutor (agent/executor.py) ----
    fails,            \* positions of the nodes whose tool raises
    parallel,         \* DAGExecutor.parallel
    epc,              \* where the executor call is
    results,          \* DAGExecutor._results, keyed by node id
    sorted_nodes,     \* execute(): the order topological_sort returned
    pos,              \* execute(): index of the next node in sorted_nodes
    completed_nodes,  \* aexecute(): ids of the nodes seen completed
    ready_nodes,      \* aexecute(): the batch being executed
    started,          \* history: positions ever set to running
    resolved,         \* history: what _resolve_params returned for each node
    \* ---- ModeManager and the agents of the session ----
    safe_mode,        \* ModeConfig.safe_mode
    plan_mode,        \* ModeConfig.plan_mode
    agents,           \* transports whose _agents holds the session's agent
    \* ---- the WebSocket connection (api/websocket.py) ----
    is_processing,    \* websocket_chat: is_processing
    cancel_flag,      \* websocket_chat: cancel_flag (threading.Event)
    pending,          \* _pending_confirmations[session_id], keyed by step
    holder,           \* the turn whose pump occupies the event loop, 0: free
    frames,           \* client frames and HTTP requests sent so far
    inbox,            \* frames the client sent, not yet read by receive_text
    replies,          \* frames the receive loop itself sent to the client
    \* ---- one chat turn (process_user_message / chat_stream) ----
    transport,        \* "none", "ws" or "sse"
    wpc,              \* where the worker thread run_chat is
    planned,          \* the worker executes a plan step (agent.invoke)
    steps_left,       \* plan steps still to execute
    msgs,             \* tool-calling AI messages of the current agent run
    mi,               \* index in msgs of the message being processed
    ci,               \* index of the tool call within that message
    step_counter,     \* step_counter[0]
    confirmation_event, \* the Event on_tool_call waits on, TRUE: set
    event_queue,      \* event_queue
    pump,             \* where the loop that forwards event_queue is
    sent,             \* events delivered to the subscriber, in order
    \* ---- history ----
    calls,            \* tool calls the LLM requested, in order
    safe_seen,        \* safe_mode was on at some moment of the turn
    cancelled,        \* the cancel signal was set during the turn
    \* ---- sessions (session/manager.py, sandbox/microsandbox.py) ----
    sessions,         \* the SessionManager objects constructed, in order
    current_session,  \* _current_session: index in sessions, 0: None
    session_registry, \* _session_registry: session id -> index, 0: absent
    disk,             \* the entries of SESSIONS_DIR
    exported,         \* files written under a session's directories
    now,              \* datetime.now(), in days
    sandbox_enabled,  \* settings.sandbox_enabled
    marked,           \* history: ids marked unavailable and not cleaned up
    last_op,          \* history: the last session operation and its outcome
    \* ---- the conversation of a DataAgent (agent/deep_agent.py) ----
    messages,         \* DataAgent._messages
    hpc,              \* where _execute_stream is
    messages_to_send, \* _execute_stream: messages_to_send
    collected_messages, \* _execute_stream: collected_messages
    to_stream,        \* the messages agent.stream has still to yield
    conv_turns,       \* chat_stream calls made so far
    settings,         \* get_settings(): the compaction settings
    turn_outcome,     \* history: how the last chat_stream call ended
    before_turn,      \* history: _messages when the last call began
    compaction,       \* history: the compact call of the last call
    \* ---- DAGPlan.to_dict / from_dict (dag/models.py) ----
    round_trip,       \* a plan, its dictionary, and the plan read back
    \* ---- ModeManager and its file (config/modes.py, api/routes/modes.py)
    mode_config,      \* ModeManager._config
    modes_file,       \* the content of ~/.data_agent/modes.json
    saved_config,     \* history: _config when the file was last written
    mode_op,          \* history: the last operation on the manager
    http,             \* history: the last request to /api/modes and its answer
    \* ---- the requests that share one session id (api/websocket.py,
    \* ---- api/chat.py, agent/middleware/subagent_monitor.py)
    ws,               \* the WebSocket connections: state and the locals
    loop,             \* the worker whose pump occupies the event loop, 0: free
    feedback_queues,  \* _feedback_queues[session_id]
    pending_confirmations, \* _pending_confirmations[session_id]
    workers,          \* the run_chat threads started, in order
    sub_callbacks,    \* the SubAgentCallbackHolder of each transport's agent
    client_frames     \* feedback, decision, cancel frames and closes so far

dagVars == <<nodes, status, sortResult, validateErrors, params>>
execVars == <<fails, parallel, epc, results, sorted_nodes, pos,
              completed_nodes, ready_nodes, started,
                   resolved>>
modeVars == <<safe_mode, plan_mode, agents>>
connVars == <<is_processing, cancel_flag, pending, holder, frames, inbox,
             replies>>
workerVars == <<transport, wpc, planned, steps_left, msgs, mi, ci,
                step_counter, confirmation_event>>
ioVars == <<event_queue, pump, sent>>
histVars == <<calls, safe_seen, cancelled>>
wsVars == <<modeVars, connVars, workerVars, ioVars, histVars>>
sessVars == <<sessions, current_session, session_registry, disk, exported,
              now, sandbox_enabled, marked, last_op>>
convVars == <<messages, hpc, messages_to_send, collected_messages, to_stream,
              conv_turns, settings, turn_outcome, before_turn,
              compaction>>
tripVars == <<round_trip>>
modesVars == <<mode_config, modes_file, saved_config, mode_op, http>>
sharedVars == <<ws, loop, feedback_queues, pending_confirmations, workers,
                sub_callbacks, client_frames>>
extVars == <<tripVars, modesVars, sharedVars>>
vars == <<dagVars, execVars, wsVars, sessVars, convVars, extVars>>

(***************************************************************************)
(* Bounds                                                                  *)
(***************************************************************************)
MaxSortNodes == 2
MaxExecNodes == 4
MaxTurns == 1        \* chat turns of the session
MaxFrames == 2       \* client frames and mode requests
MaxToolMsgs == 1     \* tool-calling AI messages of one agent run
MaxCalls == 2        \* tool calls of one AI message
MaxPlanSteps == 1    \* steps of a plan
MaxRefNodes == 2     \* nodes of a plan whose parameters hold references
MaxConvTurns == 2    \* turns of one DataAgent
MaxTripNodes == 2
MaxConns == 2        \* WebSocket connections with the session id
MaxWorkers == 2      \* turns started with the session id
MaxSubEvents == 1    \* sub-agent tool calls of one turn
MaxClientFrames == 2 \* feedback, decision and cancel frames, and closes    \* nodes of a plan that is serialised

\* an id no node of a plan has (the ids of the plans are 1, 2, ...)
UnknownId == 0

(***************************************************************************)
(* DAGNode and DAGPlan                                                     *)
(***************************************************************************)
\* NodeStatus
PENDING == "pending"
RUNNING == "running"
COMPLETED == "completed"
FAILED == "failed"
SKIPPED == "skipped"
NodeStatus == {PENDING, RUNNING, COMPLETED, FAILED, SKIPPED}

\* A DAGNode as far as sorting and scheduling read it.  `dependencies` is a
\* Python list: the code reads only its length (ndeps) and membership (deps),
\* so a list with a repeated entry has ndeps > Cardinality(deps).
DAGNode(id, deps, dup) ==
    [id |-> id, deps |-> deps,
     ndeps |-> Cardinality(deps) + (IF dup THEN 1 ELSE 0)]

Positions(ns) == 1..Len(ns)
Ids(ns) == {ns[i].id : i \in Positions(ns)}

\* DAGPlan._node_map: id -> node (a later node with the same id wins)
RECURSIVE LastWithId(_, _, _)
LastWithId(ns, id, k) ==
    IF k = 0 THEN 0
    ELSE IF ns[k].id = id THEN k ELSE LastWithId(ns, id, k - 1)

NodeMap(ns) == [id \in Ids(ns) |-> LastWithId(ns, id, Len(ns))]

\* in_degree = {node.id: len(node.dependencies) for node in self.nodes}
InDegree(ns) == [id \in Ids(ns) |-> ns[NodeMap(ns)[id]].ndeps]

\* queue = [node for node in self.nodes if in_degree[node.id] == 0]
RECURSIVE ZeroQueue(_, _, _)
ZeroQueue(ns, deg, k) ==
    IF k > Len(ns) THEN <<>>
    ELSE (IF deg[ns[k].id] = 0 THEN <<k>> ELSE <<>>) \o ZeroQueue(ns, deg, k + 1)

\* for other in self.nodes: if node.id in other.dependencies: ...
\* returns the updated [deg, queue] after looking at positions k..Len(ns)
RECURSIVE Sweep(_, _, _, _, _)
Sweep(ns, id, deg, queue, k) ==
    IF k > Len(ns) THEN [deg |-> deg, queue |-> queue]
    ELSE IF id \in ns[k].deps
         THEN LET d == [deg EXCEPT ![ns[k].id] = @ - 1]
              IN  Sweep(ns, id, d,
                        IF d[ns[k].id] = 0 THEN Append(queue, k) ELSE queue,
                        k + 1)
         ELSE Sweep(ns, id, deg, queue, k + 1)

\* while queue: node = queue.pop(0); result.append(node); ...
RECURSIVE Kahn(_, _, _, _)
Kahn(ns, deg, queue, result) ==
    IF queue = <<>> THEN result
    ELSE LET n == Head(queue)
             s == Sweep(ns, ns[n].id, deg, Tail(queue), 1)
         IN  Kahn(ns, s.deg, s.queue, Append(result, n))

\* DAGPlan.topological_sort: raised = TRUE for the ValueError, else order is
\* the returned list (the positions of the nodes, in execution order)
topological_sort(ns) ==
    LET deg == InDegree(ns)
        result == Kahn(ns, deg, ZeroQueue(ns, deg, 1), <<>>)
    IN  IF Len(result) # Len(ns)
        THEN [called |-> TRUE, raised |-> TRUE, order |-> <<>>]
        ELSE [called |-> TRUE, raised |-> FALSE, order |-> result]

\* validate without the check of the ids' uniqueness
validate_NoIdCheck(ns) ==
    (IF \E i \in Positions(ns) : \E d \in ns[i].deps : d \notin DOMAIN NodeMap(ns)
     THEN {"dangling_dependency"} ELSE {})
    \cup (IF topological_sort(ns).raised THEN {"cycle"} ELSE {})

\* DAGPlan.validate: the kinds of the errors in the returned list
validate(ns) ==
    (IF Cardinality(Ids(ns)) # Len(ns) THEN {"duplicate_id"} ELSE {})
    \cup (IF \E i \in Positions(ns) : \E d \in ns[i].deps : d \notin DOMAIN NodeMap(ns)
          THEN {"dangling_dependency"} ELSE {})
    \cup (IF topological_sort(ns).raised THEN {"cycle"} ELSE {})

(***************************************************************************)
(* What a plan is, independently of the code, to state the claims          *)
(***************************************************************************)
UniqueIds(ns) == \A i, j \in Positions(ns) : ns[i].id = ns[j].id => i = j
NoDangling(ns) == \A i \in Positions(ns) : ns[i].deps \subseteq Ids(ns)

\* ids reachable from id along dependencies in at most k steps
RECURSIVE DepsWithin(_, _, _)
DepsWithin(ns, id, k) ==
    IF k = 0 THEN {}
    ELSE LET direct == UNION {ns[i].deps : i \in {j \in Positions(ns) : ns[j].id = id}}
         IN  direct \cup UNION {DepsWithin(ns, d, k - 1) : d \in direct}

TransDeps(ns, id) == DepsWithin(ns, id, Len(ns))
HasCycle(ns) == \E id \in Ids(ns) : id \in TransDeps(ns, id)
ValidPlan(ns) == UniqueIds(ns) /\ NoDangling(ns) /\ ~HasCycle(ns)

(***************************************************************************)
(* SpecSort: topological_sort and validate on every plan of the family     *)
(***************************************************************************)
SortIds == 1..MaxSortNodes
SortNodes == {DAGNode(id, deps, FALSE) : id \in SortIds, deps \in SUBSET SortIds}
             \cup {DAGNode(id, deps, TRUE) :
                      id \in SortIds, deps \in (SUBSET SortIds) \ {{}}}
SortPlans == UNION {[1..n -> SortNodes] : n \in 0..MaxSortNodes}

NotSorted == [called |-> FALSE, raised |-> FALSE, order |-> <<>>]
NotValidated == [called |-> FALSE, errors |-> {}]

Turns == 1..MaxTurns

(***************************************************************************)
(* Session names and the entries of SESSIONS_DIR                           *)
(***************************************************************************)
MaxSessions == 2     \* SessionManager objects constructed by the process
MaxDay == 9          \* the last day the clock reaches

\* SessionManager.RETENTION_DAYS
RETENTION_DAYS == 7

\* A name is the sequence of its maximal runs of characters other than "_",
\* with the "_" between them: "session_20261001_a" is
\* <<"session", "_", "20261001", "_", "a">>.
UNDERSCORE == "_"

\* the session ids of the process: one given by a client that is not of the
\* generated format, two of the format session_YYYYMMDD_xxxxxx, and one
\* that looks like it but carries no date
SessionNames ==
    { <<"default">>,
      <<"session", UNDERSCORE, "20261001", UNDERSCORE, "a">>,
      <<"session", UNDERSCORE, "20261002", UNDERSCORE, "b">>,
      <<"session", UNDERSCORE, "backup", UNDERSCORE, "c">> }

\* an entry of SESSIONS_DIR
Entry(name, is_dir) == [name |-> name, is_dir |-> is_dir]

\* a plain file that lies in SESSIONS_DIR
StrayFile == Entry(<<"notes.txt">>, FALSE)

\* str.split(sep)
RECURSIVE split(_, _)
split(str, sep) ==
    IF \A k \in DOMAIN str : str[k] # sep
    THEN <<str>>
    ELSE LET k == CHOOSE j \in DOMAIN str :
                      str[j] = sep /\ \A h \in 1..(j - 1) : str[h] # sep
         IN  <<SubSeq(str, 1, k - 1)>> \o split(SubSeq(str, k + 1, Len(str)), sep)

\* the dates "%Y%m%d" parses, as the day of October 2026
Dates == ("20261001" :> 1) @@ ("20261002" :> 2)

\* datetime.strptime(date_str, "%Y%m%d") raises ValueError
strptime_raises(date_str) == ~(Len(date_str) = 1 /\ date_str[1] \in DOMAIN Dates)

\* datetime.strptime(date_str, "%Y%m%d"), midnight of the day returned
strptime(date_str) == Dates[date_str[1]]

\* _cleanup_old_sessions: the name has the form the date is parsed from
HasDatePart(name) ==
    LET parts == split(name, UNDERSCORE)
    IN  Len(parts) >= 3 /\ parts[1] = <<"session">>

\* _cleanup_old_sessions: parsing the name raises ValueError
Unparsable(name) ==
    HasDatePart(name) /\ strptime_raises(split(name, UNDERSCORE)[2])

\* _cleanup_old_sessions: session_date < cutoff_date; today is past midnight,
\* so midnight of day d is before the cutoff exactly when d <= today - 7
IsOld(name, today) ==
    /\ HasDatePart(name)
    /\ ~strptime_raises(split(name, UNDERSCORE)[2])
    /\ strptime(split(name, UNDERSCORE)[2]) <= today - RETENTION_DAYS

NoOp == [op |-> "none", name |-> <<>>, behalf |-> 0, used |-> 0,
         unparsable |-> {}, unremovable |-> {}, raised |-> FALSE]

\* no session was created: the module globals as they are at import
NoSessions ==
    /\ sessions = <<>>
    /\ current_session = 0
    /\ session_registry = [name \in SessionNames |-> 0]
    /\ exported = {}
    /\ marked = {}
    /\ last_op = NoOp

\* no plan was serialised
NoRoundTrip == [plan |-> <<>>, stage |-> "none", dict |-> <<>>, back |-> <<>>]

TripIdle == round_trip = NoRoundTrip

\* a Python value of the configuration: a bool, a str or an enum member
PyValue(type, name, value) == [type |-> type, name |-> name, value |-> value]
Bool(b) == PyValue("bool", IF b THEN "True" ELSE "False",
                   IF b THEN "True" ELSE "False")
Str(text) == PyValue("str", "", text)

\* the members of PlanModeValue and PreviewLimitValue
PlanModeValue ==
    { PyValue("PlanModeValue", "OFF", "off"),
      PyValue("PlanModeValue", "ON", "on"),
      PyValue("PlanModeValue", "AUTO", "auto") }
PreviewLimitValue ==
    { PyValue("PreviewLimitValue", "LIMIT_10", "10"),
      PyValue("PreviewLimitValue", "LIMIT_50", "50"),
      PyValue("PreviewLimitValue", "LIMIT_100", "100"),
      PyValue("PreviewLimitValue", "ALL", "all") }

\* ModeConfig(): the defaults of the fields
DefaultConfig ==
    [plan_mode |-> PyValue("PlanModeValue", "OFF", "off"),
     auto_execute |-> Bool(TRUE),
     safe_mode |-> Bool(TRUE),
     verbose |-> Bool(FALSE),
     preview_limit |-> PyValue("PreviewLimitValue", "LIMIT_50", "50"),
     export_mode |-> Bool(FALSE)]

\* the file is a set: empty while it does not exist, else its one content
Absent == {}
NoHttp == [path |-> <<>>, body |-> {}, status |-> 0, handler |-> "none"]

ModesIdle ==
    /\ mode_config = DefaultConfig
    /\ modes_file = Absent
    /\ saved_config = DefaultConfig
    /\ mode_op = "start"
    /\ http = NoHttp

\* an entry of a module-level dictionary that is not there
NoEntry == [present |-> FALSE, entries |-> <<>>]
Conns == 1..MaxConns
Transports == {"ws", "sse"}

SharedIdle ==
    /\ ws = [c \in Conns |-> [state |-> "closed", is_processing |-> FALSE,
                              cancel_flag |-> FALSE]]
    /\ loop = 0
    /\ feedback_queues = NoEntry
    /\ pending_confirmations = NoEntry
    /\ workers = <<>>
    /\ sub_callbacks = [tr \in Transports |-> 0]
    /\ client_frames = 0

ExtIdle == TripIdle /\ ModesIdle /\ SharedIdle

\* the compact call of a turn, before it is made
NotCompacted == [called |-> FALSE, raised |-> FALSE, compacted |-> FALSE,
                 input |-> <<>>, output |-> <<>>]

\* Settings: max_context_tokens, compact_threshold and compact_keep_ratio,
\* the two ratios in percent
Settings(max_tokens, threshold, keep_ratio) ==
    [max_context_tokens |-> max_tokens,
     compact_threshold |-> threshold,
     compact_keep_ratio |-> keep_ratio]

\* a DataAgent that was not asked anything; max_context_tokens <= 0 turns
\* compaction off
ConvIdle ==
    /\ messages = <<>>
    /\ hpc = "idle"
    /\ messages_to_send = <<>>
    /\ collected_messages = <<>>
    /\ to_stream = <<>>
    /\ conv_turns = 0
    /\ settings = Settings(0, 0, 0)
    /\ turn_outcome = "none"
    /\ before_turn = <<>>
    /\ compaction = NotCompacted

SessIdle ==
    /\ NoSessions
    /\ disk = {}
    /\ now = RETENTION_DAYS + 1
    /\ sandbox_enabled = TRUE

\* no chat turn: the connection and the turns as they are before any frame
NoTurns ==
    /\ is_processing = FALSE
    /\ cancel_flag = FALSE
    /\ pending = <<>>
    /\ holder = 0
    /\ frames = 0
    /\ inbox = <<>>
    /\ replies = <<>>
    /\ transport = [t \in Turns |-> "none"]
    /\ wpc = [t \in Turns |-> "none"]
    /\ planned = [t \in Turns |-> FALSE]
    /\ steps_left = [t \in Turns |-> 0]
    /\ msgs = [t \in Turns |-> <<>>]
    /\ mi = [t \in Turns |-> 0]
    /\ ci = [t \in Turns |-> 0]
    /\ step_counter = [t \in Turns |-> 0]
    /\ confirmation_event = [t \in Turns |-> FALSE]
    /\ event_queue = [t \in Turns |-> <<>>]
    /\ pump = [t \in Turns |-> "none"]
    /\ sent = [t \in Turns |-> <<>>]
    /\ calls = [t \in Turns |-> <<>>]
    /\ safe_seen = [t \in Turns |-> FALSE]
    /\ cancelled = [t \in Turns |-> FALSE]

WsIdle ==
    /\ safe_mode = TRUE
    /\ plan_mode = "off"
    /\ agents = {}
    /\ NoTurns

\* A string parameter of a node is the sequence of its pieces: plain text,
\* or a reference ${id}. _resolve_params replaces a reference by the text
\* of a result.
TextPiece == [kind |-> "text", id |-> 0, result |-> ""]
Ref(id) == [kind |-> "ref", id |-> id, result |-> ""]
Value(id, result) == [kind |-> "value", id |-> id, result |-> result]

\* params without a reference
NoParams(ns) == [i \in Positions(ns) |-> <<TextPiece>>]

\* _resolve_params was not called for any node
NotResolved(ns) == [i \in Positions(ns) |-> <<>>]

ExecIdle ==
    /\ fails = {}
    /\ parallel = FALSE
    /\ epc = "none"
    /\ results = [id \in Ids(nodes) |-> "absent"]
    /\ sorted_nodes = <<>>
    /\ pos = 0
    /\ completed_nodes = {}
    /\ ready_nodes = <<>>
    /\ started = {}
    /\ params = NoParams(nodes)
    /\ resolved = NotResolved(nodes)

InitSort ==
    /\ WsIdle
    /\ SessIdle
    /\ ConvIdle
    /\ ExtIdle
    /\ nodes \in SortPlans
    /\ status = [i \in Positions(nodes) |-> PENDING]
    /\ sortResult = NotSorted
    /\ validateErrors = NotValidated
    /\ ExecIdle

CallTopologicalSort ==
    /\ ~sortResult.called
    /\ sortResult' = topological_sort(nodes)
    /\ UNCHANGED <<wsVars, sessVars, convVars, extVars>>
    /\ UNCHANGED <<params, nodes, status, validateErrors, execVars>>

CallValidate ==
    /\ ~validateErrors.called
    /\ validateErrors' = [called |-> TRUE, errors |-> validate(nodes)]
    /\ UNCHANGED <<wsVars, sessVars, convVars, extVars>>
    /\ UNCHANGED <<params, nodes, status, sortResult, execVars>>

NextSort == CallTopologicalSort \/ CallValidate

SpecSort == InitSort /\ [][NextSort]_vars

\* position of node n in a returned order (0 when absent)
RECURSIVE IndexIn(_, _, _)
IndexIn(order, n, k) ==
    IF k > Len(order) THEN 0
    ELSE IF order[k] = n THEN k ELSE IndexIn(order, n, k + 1)

\* order lists every node exactly once and each node after its dependencies
IsTopologicalOrder(ns, order) ==
    /\ Len(order) = Len(ns)
    /\ \A i \in Positions(ns) : IndexIn(order, i, 1) > 0
    /\ \A i, j \in Positions(ns) :
           ns[j].id \in ns[i].deps => IndexIn(order, j, 1) < IndexIn(order, i, 1)

\* C3 (as claimed): for every valid plan (unique ids, no dangling dependency,
\* no cycle) topological_sort returns every node exactly once, each node
\* strictly after all of its dependencies.
C3_SortsEveryValidPlan ==
    (sortResult.called /\ ValidPlan(nodes)) =>
        (~sortResult.raised /\ IsTopologicalOrder(nodes, sortResult.order))

\* C4 (as claimed): for every invalid plan validate returns a non-empty error
\* list and topological_sort raises.
C4_InvalidPlanRejectedByBoth ==
    ~ValidPlan(nodes) =>
        /\ validateErrors.called => validateErrors.errors # {}
        /\ sortResult.called => sortResult.raised

\* C4 (amended): for every invalid plan validate returns a non-empty error
\* list; topological_sort raises for every invalid plan whose node ids are
\* unique (a cycle or a dangling dependency), while a plan with a duplicated
\* id may be sorted without an error.
C4_InvalidPlanRejected ==
    ~ValidPlan(nodes) =>
        /\ validateErrors.called => validateErrors.errors # {}
        /\ (sortResult.called /\ UniqueIds(nodes)) => sortResult.raised

\* an invalid plan with unique ids (a dangling dependency), both calls made
C4_Witness ==
    /\ UniqueIds(nodes) /\ ~NoDangling(nodes)
    /\ validateErrors.called /\ validateErrors.errors # {}
    /\ sortResult.called /\ sortResult.raised

(***************************************************************************)
(* SpecExec: DAGExecutor.execute and DAGExecutor.aexecute on a fresh plan  *)
(***************************************************************************)
\* is_ready with any() in the place of all()
is_ready_Any(node, completed) ==
    node.deps = {} \/ \E dep \in node.deps : dep \in completed

\* DAGNode.is_ready: all(dep in completed_nodes for dep in self.dependencies)
is_ready(node, completed) == \A dep \in node.deps : dep \in completed

\* [node for node in dag.nodes if node.status == PENDING and node.is_ready(..)]
RECURSIVE ReadyNodes(_, _, _, _)
ReadyNodes(ns, st, completed, k) ==
    IF k > Len(ns) THEN <<>>
    ELSE (IF st[k] = PENDING /\ is_ready(ns[k], completed) THEN <<k>> ELSE <<>>)
         \o ReadyNodes(ns, st, completed, k + 1)

SeqToSet(q) == {q[i] : i \in 1..Len(q)}

\* the plans handed to the executor: n nodes with ids 1..n, every node
\* depending on nodes of smaller id, listed in insertion order or reversed
Reverse(q) == [i \in 1..Len(q) |-> q[Len(q) + 1 - i]]
RECURSIVE PlansOfSize(_)
PlansOfSize(n) ==
    IF n = 0 THEN {<<>>}
    ELSE {Append(ns, DAGNode(n, deps, FALSE)) :
             ns \in PlansOfSize(n - 1), deps \in SUBSET (1..(n - 1))}
ForwardPlans == UNION {PlansOfSize(n) : n \in 0..MaxExecNodes}
ExecPlans == ForwardPlans \cup {Reverse(ns) : ns \in ForwardPlans}

NoResult == "absent"

InitExec ==
    /\ WsIdle
    /\ SessIdle
    /\ ConvIdle
    /\ ExtIdle
    /\ nodes \in ExecPlans
    /\ status = [i \in Positions(nodes) |-> PENDING]
    /\ sortResult = NotSorted
    /\ validateErrors = NotValidated
    /\ fails \in SUBSET Positions(nodes)
    /\ parallel \in BOOLEAN
    /\ epc = "constructed"
    /\ results = [id \in Ids(nodes) |-> NoResult]
    /\ sorted_nodes = <<>>
    /\ pos = 0
    /\ completed_nodes = {}
    /\ ready_nodes = <<>>
    /\ started = {}
    /\ params = NoParams(nodes)
    /\ resolved = NotResolved(nodes)

\* the plans whose nodes carry a reference: at most MaxRefNodes nodes
RefPlans ==
    LET small == UNION {PlansOfSize(n) : n \in 0..MaxRefNodes}
    IN  small \cup {Reverse(ns) : ns \in small}

\* the values of a node's parameter: text, or a reference to the id of a
\* node of the plan or to an id no node has
ParamValues(ns) ==
    {<<TextPiece>>} \cup {<<Ref(id)>> : id \in Ids(ns) \cup {UnknownId}}

\* an executor and a fresh plan whose parameters may hold references
InitParams ==
    /\ WsIdle
    /\ SessIdle
    /\ ConvIdle
    /\ ExtIdle
    /\ nodes \in RefPlans
    /\ status = [i \in Positions(nodes) |-> PENDING]
    /\ sortResult = NotSorted
    /\ validateErrors = NotValidated
    /\ fails \in SUBSET Positions(nodes)
    /\ parallel \in BOOLEAN
    /\ epc = "constructed"
    /\ results = [id \in Ids(nodes) |-> NoResult]
    /\ sorted_nodes = <<>>
    /\ pos = 0
    /\ completed_nodes = {}
    /\ ready_nodes = <<>>
    /\ started = {}
    /\ params \in [Positions(nodes) -> ParamValues(nodes)]
    /\ resolved = NotResolved(nodes)

\* _resolve_params on one string value: re.sub with replace_ref, which
\* returns str(self._results.get(ref_id, match.group(0)))
resolve_params(value, res) ==
    [k \in DOMAIN value |->
        IF value[k].kind = "ref"
        THEN IF value[k].id \in DOMAIN res /\ res[value[k].id] # NoResult
             THEN Value(value[k].id, res[value[k].id])
             ELSE value[k]
        ELSE value[k]]

\* the try/except of _execute_node and _aexecute_node after the tool returned
\* or raised: the node's status and its entry of _results
Outcome(n) == IF n \in fails THEN FAILED ELSE COMPLETED
ResultOf(n) == IF n \in fails THEN "error" ELSE "ok"

\* execute(): self._results = {}; sorted_nodes = dag.topological_sort(), the
\* ValueError answered with {"error": ...}
Execute ==
    /\ epc = "constructed"
    /\ LET r == topological_sort(nodes)
       IN  /\ sortResult' = r
           /\ sorted_nodes' = r.order
           /\ epc' = IF r.raised THEN "returned_error"
                     ELSE IF r.order = <<>> THEN "returned" ELSE "execute"
           /\ pos' = 1
    /\ results' = [id \in Ids(nodes) |-> NoResult]
    /\ UNCHANGED <<wsVars, sessVars, convVars, extVars>>
    /\ UNCHANGED <<params, nodes, status, validateErrors, fails, parallel,
                   completed_nodes, ready_nodes, started,
                   resolved>>

\* _execute_node, first statement: node.status = RUNNING
ExecuteNodeStart ==
    /\ epc = "execute"
    /\ status[sorted_nodes[pos]] # RUNNING
    /\ status' = [status EXCEPT ![sorted_nodes[pos]] = RUNNING]
    /\ started' = started \cup {sorted_nodes[pos]}
    /\ resolved' = [resolved EXCEPT ![sorted_nodes[pos]] =
                        resolve_params(params[sorted_nodes[pos]], results)]
    /\ UNCHANGED <<wsVars, sessVars, convVars, extVars>>
    /\ UNCHANGED <<params, nodes, sortResult, validateErrors, fails, parallel, epc,
                   results, sorted_nodes, pos, completed_nodes, ready_nodes>>

\* _execute_node, the rest, then the loop of execute(): break on FAILED
ExecuteNodeFinish ==
    /\ epc = "execute"
    /\ LET n == sorted_nodes[pos]
       IN  /\ status[n] = RUNNING
           /\ status' = [status EXCEPT ![n] = Outcome(n)]
           /\ results' = [results EXCEPT ![nodes[n].id] = ResultOf(n)]
           /\ IF Outcome(n) = FAILED \/ pos = Len(sorted_nodes)
              THEN epc' = "returned" /\ pos' = pos
              ELSE epc' = epc /\ pos' = pos + 1
    /\ UNCHANGED <<wsVars, sessVars, convVars, extVars>>
    /\ UNCHANGED <<params, nodes, sortResult, validateErrors, fails, parallel,
                   sorted_nodes, completed_nodes, ready_nodes, started,
                   resolved>>

\* aexecute(): self._results = {}; completed_nodes = set()
AExecute ==
    /\ epc = "constructed"
    /\ epc' = "aexecute"
    /\ completed_nodes' = {}
    /\ results' = [id \in Ids(nodes) |-> NoResult]
    /\ UNCHANGED <<wsVars, sessVars, convVars, extVars>>
    /\ UNCHANGED <<dagVars, fails, parallel, sorted_nodes, pos,
                   ready_nodes, started,
                   resolved>>

\* aexecute(), top of the while loop: select the ready nodes; none ready and
\* none running ends the call; with parallel the gather starts every task,
\* each running to its first await (node.status = RUNNING)
ASelect ==
    /\ epc = "aexecute"
    /\ LET ready == ReadyNodes(nodes, status, completed_nodes, 1)
       IN  /\ ready_nodes' = ready
           /\ IF ready = <<>>
              THEN /\ \A i \in Positions(nodes) : status[i] # RUNNING
                   /\ epc' = "returned"
                   /\ UNCHANGED <<status, started, resolved, pos>>
              ELSE IF parallel
              THEN /\ epc' = "gather"
                   /\ status' = [i \in Positions(nodes) |->
                                   IF i \in SeqToSet(ready) THEN RUNNING ELSE status[i]]
                   /\ started' = started \cup SeqToSet(ready)
                   /\ resolved' = [i \in Positions(nodes) |->
                                     IF i \in SeqToSet(ready)
                                     THEN resolve_params(params[i], results)
                                     ELSE resolved[i]]
                   /\ pos' = pos
              ELSE /\ epc' = "sequential"
                   /\ pos' = 1
                   /\ UNCHANGED <<status, started, resolved>>
    /\ UNCHANGED <<wsVars, sessVars, convVars, extVars>>
    /\ UNCHANGED <<params, nodes, sortResult, validateErrors, fails, parallel, results,
                   sorted_nodes, completed_nodes>>

\* _aexecute_node of one task of the gather, after its await
ANodeFinish(n) ==
    /\ epc = "gather"
    /\ n \in SeqToSet(ready_nodes)
    /\ status[n] = RUNNING
    /\ status' = [status EXCEPT ![n] = Outcome(n)]
    /\ results' = [results EXCEPT ![nodes[n].id] = ResultOf(n)]
    /\ UNCHANGED <<wsVars, sessVars, convVars, extVars>>
    /\ UNCHANGED <<params, nodes, sortResult, validateErrors, fails, parallel, epc,
                   sorted_nodes, pos, completed_nodes, ready_nodes, started,
                   resolved>>

\* the end of a batch: completed nodes join completed_nodes; any FAILED node
\* of the dag ends the call
BatchEnd(st, completed) ==
    /\ completed_nodes' = completed
    /\ epc' = IF \E i \in Positions(nodes) : st[i] = FAILED
              THEN "returned" ELSE "aexecute"

\* aexecute(), after `await asyncio.gather(*tasks)`
AGatherDone ==
    /\ epc = "gather"
    /\ \A n \in SeqToSet(ready_nodes) : status[n] # RUNNING
    /\ BatchEnd(status, completed_nodes \cup
                   {nodes[n].id : n \in {m \in SeqToSet(ready_nodes) : status[m] = COMPLETED}})
    /\ UNCHANGED <<wsVars, sessVars, convVars, extVars>>
    /\ UNCHANGED <<dagVars, fails, parallel, results, sorted_nodes, pos,
                   ready_nodes, started,
                   resolved>>

\* aexecute() without parallel: _aexecute_node of the next node of the batch,
\* up to its await
ASeqNodeStart ==
    /\ epc = "sequential"
    /\ status[ready_nodes[pos]] # RUNNING
    /\ status' = [status EXCEPT ![ready_nodes[pos]] = RUNNING]
    /\ started' = started \cup {ready_nodes[pos]}
    /\ resolved' = [resolved EXCEPT ![ready_nodes[pos]] =
                        resolve_params(params[ready_nodes[pos]], results)]
    /\ UNCHANGED <<wsVars, sessVars, convVars, extVars>>
    /\ UNCHANGED <<params, nodes, sortResult, validateErrors, fails, parallel, epc,
                   results, sorted_nodes, pos, completed_nodes, ready_nodes>>

\* ... and after it; the failure check follows the last node of the batch
ASeqNodeFinish ==
    /\ epc = "sequential"
    /\ LET n == ready_nodes[pos]
           st == [status EXCEPT ![n] = Outcome(n)]
           completed == IF Outcome(n) = COMPLETED
                        THEN completed_nodes \cup {nodes[n].id}
                        ELSE completed_nodes
       IN  /\ status[n] = RUNNING
           /\ status' = st
           /\ results' = [results EXCEPT ![nodes[n].id] = ResultOf(n)]
           /\ IF pos = Len(ready_nodes)
              THEN BatchEnd(st, completed) /\ pos' = pos
              ELSE completed_nodes' = completed /\ epc' = epc /\ pos' = pos + 1
    /\ UNCHANGED <<wsVars, sessVars, convVars, extVars>>
    /\ UNCHANGED <<params, nodes, sortResult, validateErrors, fails, parallel,
                   sorted_nodes, ready_nodes, started,
                   resolved>>

NextExec ==
    \/ Execute
    \/ ExecuteNodeStart
    \/ ExecuteNodeFinish
    \/ AExecute
    \/ ASelect
    \/ \E n \in Positions(nodes) : ANodeFinish(n)
    \/ AGatherDone
    \/ ASeqNodeStart
    \/ ASeqNodeFinish

SpecExec == InitExec /\ [][NextExec]_vars

\* the caller of a call that returned hands the same DAGPlan to execute or
\* aexecute again: the locals of the finished call are gone, the nodes keep
\* the status the finished call left
CallAgain ==
    /\ epc \in {"returned", "returned_error"}
    /\ epc' = "constructed"
    /\ sorted_nodes' = <<>>
    /\ pos' = 0
    /\ completed_nodes' = {}
    /\ ready_nodes' = <<>>
    /\ UNCHANGED <<wsVars, sessVars, convVars, extVars>>
    /\ UNCHANGED <<dagVars, fails, parallel, results, started,
                   resolved>>

NextRerun == NextExec \/ CallAgain

\* SpecRerun: the executor calls of SpecExec, repeated on the same plan
SpecRerun == InitExec /\ [][NextRerun]_vars

\* SpecParams: the executor calls on plans whose parameters hold references
SpecParams == InitParams /\ [][NextExec]_vars

Returned == epc \in {"returned", "returned_error"}

\* C1: a node that has a failed node among its transitive dependencies is
\* never set to running and is pending, at every moment of a scheduler call
\* and so when the call returns.
C1_NoStartAfterFailedDependency ==
    \A f, n \in Positions(nodes) :
        (status[f] = FAILED /\ nodes[f].id \in TransDeps(nodes, nodes[n].id))
            => (n \notin started /\ status[n] = PENDING)

\* a call has returned with a failed node, a pending dependent of it and a
\* completed node
C1_Witness ==
    /\ Returned
    /\ \E f, n, c \in Positions(nodes) :
           /\ status[f] = FAILED
           /\ nodes[f].id \in TransDeps(nodes, nodes[n].id)
           /\ status[n] = PENDING
           /\ status[c] = COMPLETED

\* the plan of the fan-out scenario: 1, 2, 3 independent, 4 depending on them
PosOf(id) == NodeMap(nodes)[id]
IsFanOut ==
    /\ Ids(nodes) = {1, 2, 3, 4} /\ Len(nodes) = 4
    /\ nodes[PosOf(4)].deps = {1, 2, 3}
    /\ \A id \in {1, 2, 3} : nodes[PosOf(id)].deps = {}
Layer0 == {PosOf(1), PosOf(2), PosOf(3)}

\* C2 (as claimed): on the fan-out plan the scheduler runs 1, 2 and 3 as one
\* layer and does not dispatch 4 before all three have finished; when only
\* the tool of 2 fails, the call returns with 4 pending and with a result for
\* 1 (completed), 2 (failed) and 3 (completed).
C2_FanOutScenario ==
    IsFanOut =>
        /\ PosOf(4) \in started =>
               \A n \in Layer0 : status[n] \in {COMPLETED, FAILED}
        /\ (Returned /\ fails = {PosOf(2)}) =>
               /\ status[PosOf(4)] = PENDING
               /\ results[1] = "ok" /\ status[PosOf(1)] = COMPLETED
               /\ results[2] = "error" /\ status[PosOf(2)] = FAILED
               /\ results[3] = "ok" /\ status[PosOf(3)] = COMPLETED

(***************************************************************************)
(* Spec: chat turns of one session over the WebSocket (api/websocket.py)   *)
(* and over SSE (api/chat.py), the agent run inside (agent/deep_agent.py). *)
(* Thinking events and sub-agent events are left out: they read the cancel *)
(* flag and touch neither the step counter nor the privilege gate.         *)
(***************************************************************************)
\* tool names, as the character strings is_sql_tool inspects
EXECUTE_SQL == <<"e", "x", "e", "c", "u", "t", "e", "_", "s", "q", "l">>
QUERY_DATABASE == <<"q", "u", "e", "r", "y", "_", "d", "a", "t", "a", "b", "a", "s", "e">>
RUN_SQL == <<"r", "u", "n", "_", "s", "q", "l">>
LIST_TABLES == <<"l", "i", "s", "t", "_", "t", "a", "b", "l", "e", "s">>

\* the tool calls the LLM may request: a tool of create_data_agent with the
\* kind of statement its arguments carry
Tools == {[name |-> EXECUTE_SQL, args |-> "select"],
          [name |-> EXECUTE_SQL, args |-> "delete"],
          [name |-> LIST_TABLES, args |-> "none"]}

\* str.lower()
LowerCase == ("E" :> "e") @@ ("X" :> "x") @@ ("C" :> "c") @@ ("U" :> "u")
             @@ ("T" :> "t") @@ ("S" :> "s") @@ ("Q" :> "q") @@ ("L" :> "l")
lower(str) == [i \in 1..Len(str) |->
                 IF str[i] \in DOMAIN LowerCase THEN LowerCase[str[i]] ELSE str[i]]

\* `sub in str`
Contains(str, sub) ==
    \E i \in 1..(Len(str) - Len(sub) + 1) : SubSeq(str, i, i + Len(sub) - 1) = sub

\* is_sql_tool
is_sql_tool(tool_name) ==
    \/ lower(tool_name) \in {EXECUTE_SQL, QUERY_DATABASE, RUN_SQL}
    \/ Contains(lower(tool_name), <<"s", "q", "l">>)

\* needs_confirmation whatever safe_mode is
needs_confirmation_NoSafeMode(tool_name, tool_args) == is_sql_tool(tool_name)

\* needs_confirmation only for a statement that modifies data
needs_confirmation_Modifying(tool_name, tool_args) ==
    IF ~safe_mode THEN FALSE
    ELSE is_sql_tool(tool_name) /\ tool_args = "delete"

\* needs_confirmation
needs_confirmation(tool_name, tool_args) ==
    IF ~safe_mode THEN FALSE ELSE is_sql_tool(tool_name)

\* PlanExecutor.should_plan, for the plan modes "off" and "on"
should_plan(mode) == mode = "on"

\* on_tool_call after confirmation_event.wait(timeout=300): InterruptedError
\* is raised when the wait timed out and when the decision is "reject"
raises_interrupted_OnTimeout(confirmed, decision) == ~confirmed

raises_interrupted(confirmed, decision) == ~confirmed \/ decision = "reject"

\* on_complete: setattr_wrapper(locals(), 'is_processing', False) writes the
\* dictionary of the lambda's own locals; websocket_chat's is_processing keeps
\* its value
on_complete(processing) == processing

\* an event of event_queue: its type, its step, and (history) the tool call
\* it is about and the kind of text of a message
Event(type, step, call, text) ==
    [type |-> type, step |-> step, call |-> call, text |-> text]

\* a tool call requested by the LLM, with its history
NewCall(tool) ==
    [tool |-> tool,          \* the call as the LLM requested it
     args |-> tool.args,     \* tool_args, which an edit decision updates
     approve_sent |-> FALSE, \* the client sent approve while it waited
     fired |-> FALSE,        \* on_tool_call was called for it
     fired_first |-> FALSE,  \* ... before the tool was invoked
     on_call |-> FALSE,      \* on_tool_call ran for it past the cancel check
     step |-> 0,             \* step_counter[0] given to it by on_tool_call
     safe |-> FALSE,         \* safe_mode when needs_confirmation was called
     gate |-> "none",        \* "pass": no confirmation, "confirm": requested
     decision |-> "none",    \* decision read after the wait, or "timeout"
     executed |-> FALSE,     \* the tool was invoked
     after_cancel |-> FALSE] \* ... with the cancel signal of the turn set

CallLists == UNION {[1..n -> Tools] : n \in 0..MaxCalls}
Decisions == {"approve", "edit", "reject"}
StepIds == 1..(MaxToolMsgs * MaxCalls * MaxPlanSteps)

Put(t, e) == [event_queue EXCEPT ![t] = Append(@, e)]
Active(t) == transport[t] # "none" /\ pump[t] # "ended"
FreshTurn(t) ==
    /\ transport[t] = "none"
    /\ \A u \in Turns : u < t => transport[u] # "none"

\* a running server: any modes, the session's agent created by an earlier
\* request or not yet
Init ==
    /\ nodes = <<>>
    /\ status = <<>>
    /\ sortResult = NotSorted
    /\ validateErrors = NotValidated
    /\ ExecIdle
    /\ safe_mode \in BOOLEAN
    /\ plan_mode \in {"off", "on"}
    /\ agents \in SUBSET {"ws", "sse"}
    /\ NoTurns
    /\ SessIdle
    /\ ConvIdle
    /\ ExtIdle

(***************************************************************************)
(* The event loop: HTTP handlers and the receive loop of websocket_chat.   *)
(* They are coroutines of one thread: one runs only while no pump holds    *)
(* the thread in event_queue.get(timeout=0.1).                             *)
(***************************************************************************)
\* a frame of the client: its type, and for a decision the decision and the
\* step the tool_call_id names
Frame(type, decision, tool_call_id) ==
    [type |-> type, decision |-> decision, tool_call_id |-> tool_call_id]
Frames == {Frame("user_message", "none", 0), Frame("cancel", "none", 0)}
          \cup {Frame("decision", d, id) : d \in Decisions, id \in StepIds}

\* the client sends a frame; websocket.receive_text() returns it when the
\* receive loop runs next.  History: an approve sent for a call whose
\* confirmation_request the client has received and that is still waiting.
ClientSend(frame) ==
    /\ frames < MaxFrames
    /\ frames' = frames + 1
    /\ inbox' = Append(inbox, frame)
    /\ calls' = [t \in Turns |->
                   IF /\ frame.type = "decision" /\ frame.decision = "approve"
                      /\ wpc[t] = "wait" /\ step_counter[t] = frame.tool_call_id
                      /\ \E i \in DOMAIN sent[t] :
                            /\ sent[t][i].type = "confirmation_request"
                            /\ sent[t][i].step = frame.tool_call_id
                   THEN [calls[t] EXCEPT ![msgs[t][mi[t]][ci[t]]].approve_sent = TRUE]
                   ELSE calls[t]]
    /\ UNCHANGED <<extVars, convVars, sessVars, dagVars, execVars, modeVars, is_processing, cancel_flag,
                   pending, holder, replies, workerVars, ioVars, safe_seen,
                   cancelled>>

\* POST /api/modes/safe
SetSafeMode(value) ==
    /\ holder = 0 /\ frames < MaxFrames
    /\ frames' = frames + 1
    /\ safe_mode' = value
    /\ safe_seen' = [t \in Turns |-> safe_seen[t] \/ (value /\ Active(t))]
    /\ UNCHANGED <<extVars, convVars, sessVars, dagVars, execVars, plan_mode, agents, is_processing,
                   cancel_flag, pending, holder, inbox, replies, workerVars,
                   ioVars, calls, cancelled>>

\* POST /api/modes/plan
SetPlanMode(value) ==
    /\ holder = 0 /\ frames < MaxFrames
    /\ frames' = frames + 1
    /\ plan_mode' = value
    /\ UNCHANGED <<extVars, convVars, sessVars, dagVars, execVars, safe_mode, agents, is_processing,
                   cancel_flag, pending, holder, inbox, replies, workerVars,
                   ioVars, histVars>>

\* websocket_chat, frame "user_message"
UserMessage ==
    /\ holder = 0
    /\ inbox # <<>> /\ Head(inbox) = Frame("user_message", "none", 0)
    /\ inbox' = Tail(inbox)
    /\ IF is_processing
       THEN /\ replies' = Append(replies, "error")
            /\ UNCHANGED <<is_processing, cancel_flag, transport, pump, safe_seen>>
       ELSE \E t \in Turns :
              /\ FreshTurn(t)
              /\ is_processing' = TRUE
              /\ cancel_flag' = FALSE
              /\ transport' = [transport EXCEPT ![t] = "ws"]
              /\ pump' = [pump EXCEPT ![t] = "task"]
              /\ safe_seen' = [safe_seen EXCEPT ![t] = safe_mode]
              /\ replies' = replies
    /\ UNCHANGED <<extVars, convVars, sessVars, dagVars, execVars, modeVars, pending, holder, frames, wpc,
                   planned, steps_left, msgs, mi, ci, step_counter,
                   confirmation_event, event_queue, sent, calls, cancelled>>

\* process_user_message up to the start of its pump: get_or_create_agent
\* (a new agent turns plan_mode off), chat_thread.start()
TaskStart(t) ==
    /\ holder = 0
    /\ pump[t] = "task"
    /\ agents' = agents \cup {"ws"}
    /\ plan_mode' = IF "ws" \in agents THEN plan_mode ELSE "off"
    /\ wpc' = [wpc EXCEPT ![t] = "start"]
    /\ pump' = [pump EXCEPT ![t] = "polling"]
    /\ holder' = t
    /\ UNCHANGED <<extVars, convVars, sessVars, dagVars, execVars, safe_mode, is_processing, cancel_flag,
                   pending, frames, inbox, replies, transport, planned, steps_left,
                   msgs, mi, ci, step_counter, confirmation_event, event_queue,
                   sent, histVars>>

\* websocket_chat, frame "decision"
Decision(decision, tool_call_id) ==
    /\ holder = 0
    /\ inbox # <<>> /\ Head(inbox) = Frame("decision", decision, tool_call_id)
    /\ inbox' = Tail(inbox)
    /\ IF tool_call_id \in DOMAIN pending
       THEN LET owner == pending[tool_call_id].owner
            IN  /\ pending' = [pending EXCEPT
                                 ![tool_call_id].decision = decision,
                                 ![tool_call_id].edited_args =
                                     IF decision = "edit" THEN "select" ELSE "none"]
                /\ confirmation_event' =
                       IF wpc[owner] = "wait" /\ step_counter[owner] = tool_call_id
                       THEN [confirmation_event EXCEPT ![owner] = TRUE]
                       ELSE confirmation_event
                /\ replies' = replies
       ELSE /\ replies' = Append(replies, "error")
            /\ UNCHANGED <<pending, confirmation_event>>
    /\ UNCHANGED <<extVars, convVars, sessVars, dagVars, execVars, modeVars, is_processing, cancel_flag,
                   holder, frames, transport, wpc, planned, steps_left, msgs,
                   mi, ci, step_counter, ioVars, histVars>>

\* websocket_chat, frame "cancel"
Cancel ==
    /\ holder = 0
    /\ inbox # <<>> /\ Head(inbox) = Frame("cancel", "none", 0)
    /\ inbox' = Tail(inbox)
    /\ cancel_flag' = TRUE
    /\ replies' = replies \o <<"message", "done">>
    /\ is_processing' = FALSE
    /\ cancelled' = [t \in Turns |->
                       \/ cancelled[t]
                       \/ (transport[t] = "ws"
                           /\ ~(wpc[t] = "done" /\ pump[t] = "ended"))]
    /\ UNCHANGED <<extVars, convVars, sessVars, dagVars, execVars, modeVars, pending, holder, frames,
                   workerVars, ioVars, calls, safe_seen>>

\* POST /api/chat/stream: get_or_create_agent, chat_thread.start(), the
\* response streams generate_events() from a thread of the pool
SseRequest ==
    /\ holder = 0 /\ frames < MaxFrames
    /\ frames' = frames + 1
    /\ \E t \in Turns :
         /\ FreshTurn(t)
         /\ transport' = [transport EXCEPT ![t] = "sse"]
         /\ wpc' = [wpc EXCEPT ![t] = "start"]
         /\ pump' = [pump EXCEPT ![t] = "polling"]
         /\ safe_seen' = [safe_seen EXCEPT ![t] = safe_mode]
    /\ agents' = agents \cup {"sse"}
    /\ plan_mode' = IF "sse" \in agents THEN plan_mode ELSE "off"
    /\ UNCHANGED <<extVars, convVars, sessVars, dagVars, execVars, safe_mode, is_processing, cancel_flag,
                   pending, holder, inbox, replies, planned, steps_left, msgs, mi, ci,
                   step_counter, confirmation_event, event_queue, sent, calls,
                   cancelled>>

(***************************************************************************)
(* The pump: the loop of process_user_message that forwards event_queue to *)
(* the WebSocket, and generate_events of the SSE response                  *)
(***************************************************************************)
\* event = event_queue.get(timeout=0.1); await send_json(websocket, event).
\* The await lets the other coroutines run (yields) or returns at once; the
\* "done" event ends the pump, and on_complete() follows.
PumpSend(t, yields) ==
    /\ pump[t] = "polling"
    /\ event_queue[t] # <<>>
    /\ transport[t] = "ws" => holder = t
    /\ LET event == Head(event_queue[t])
       IN  /\ sent' = [sent EXCEPT ![t] = Append(@, event)]
           /\ event_queue' = [event_queue EXCEPT ![t] = Tail(@)]
           /\ IF event.type = "done"
              THEN /\ pump' = [pump EXCEPT ![t] = "ended"]
                   /\ holder' = IF transport[t] = "ws" THEN 0 ELSE holder
                   /\ is_processing' = IF transport[t] = "ws"
                                       THEN on_complete(is_processing)
                                       ELSE is_processing
              ELSE IF transport[t] = "ws" /\ yields
              THEN /\ pump' = [pump EXCEPT ![t] = "sending"]
                   /\ holder' = 0
                   /\ is_processing' = is_processing
              ELSE UNCHANGED <<pump, holder, is_processing>>
    /\ UNCHANGED <<extVars, convVars, sessVars, dagVars, execVars, modeVars, cancel_flag, pending, frames, inbox,
                   replies, workerVars, histVars>>

\* send_json returns: the pump is back in event_queue.get
PumpResume(t) ==
    /\ pump[t] = "sending"
    /\ holder = 0
    /\ pump' = [pump EXCEPT ![t] = "polling"]
    /\ holder' = t
    /\ UNCHANGED <<extVars, convVars, sessVars, dagVars, execVars, modeVars, is_processing, cancel_flag,
                   pending, frames, inbox, replies, workerVars, event_queue, sent,
                   histVars>>

\* queue.Empty with the cancel flag set: break, chat_thread.join(timeout=1.0),
\* on_complete()
PumpCancelled(t) ==
    /\ pump[t] = "polling"
    /\ transport[t] = "ws" /\ holder = t
    /\ event_queue[t] = <<>>
    /\ cancel_flag
    /\ pump' = [pump EXCEPT ![t] = "ended"]
    /\ holder' = 0
    /\ is_processing' = on_complete(is_processing)
    /\ UNCHANGED <<extVars, convVars, sessVars, dagVars, execVars, modeVars, cancel_flag, pending, frames, inbox,
                   replies, workerVars, event_queue, sent, histVars>>

(***************************************************************************)
(* The worker thread run_chat and the agent run inside it                  *)
(***************************************************************************)
Call(t) == msgs[t][mi[t]][ci[t]]

\* the calls of an AI message appended to the history; run: the tools were
\* invoked already (agent.invoke)
RECURSIVE WithCalls(_, _, _, _)
WithCalls(log, cl, run, afterCancel) ==
    IF cl = <<>> THEN log
    ELSE WithCalls(Append(log, [NewCall(Head(cl)) EXCEPT
                                   !.executed = run,
                                   !.after_cancel = run /\ afterCancel]),
                   Tail(cl), run, afterCancel)

\* the message: the positions in the history of its calls
NewMessage(log, cl) == [i \in 1..Len(cl) |-> Len(log) + i]

\* run_chat, start: the only read of cancel_flag outside the callbacks; then
\* chat_stream chooses planned or direct execution
W_Start(t) ==
    /\ wpc[t] = "start"
    /\ wpc' = [wpc EXCEPT ![t] =
                  IF transport[t] = "ws" /\ cancel_flag THEN "finally"
                  ELSE IF should_plan(plan_mode) THEN "plan" ELSE "llm"]
    /\ UNCHANGED <<extVars, convVars, sessVars, dagVars, execVars, modeVars, connVars, transport, planned,
                   steps_left, msgs, mi, ci, step_counter, confirmation_event,
                   ioVars, histVars>>

\* _execute_with_plan up to its loop: _get_single_response runs agent.invoke
\* (the LLM may have a tool run, no callback is involved), the plan is parsed
\* (failure: direct execution) and confirm_plan is asked on the console
W_Plan(t) ==
    /\ wpc[t] = "plan"
    /\ \E silent \in CallLists, parsed \in BOOLEAN, confirmed \in BOOLEAN,
          n \in 1..MaxPlanSteps :
         /\ Len(silent) <= 1
         /\ calls' = [calls EXCEPT ![t] = WithCalls(@, silent, TRUE, cancelled[t])]
         /\ IF ~parsed
            THEN /\ wpc' = [wpc EXCEPT ![t] = "llm"]
                 /\ UNCHANGED <<planned, steps_left>>
            ELSE IF ~confirmed
            THEN /\ wpc' = [wpc EXCEPT ![t] = "finish"]
                 /\ UNCHANGED <<planned, steps_left>>
            ELSE /\ wpc' = [wpc EXCEPT ![t] = "invoke"]
                 /\ planned' = [planned EXCEPT ![t] = TRUE]
                 /\ steps_left' = [steps_left EXCEPT ![t] = n]
    /\ UNCHANGED <<extVars, convVars, sessVars, dagVars, execVars, modeVars, connVars, transport, msgs, mi,
                   ci, step_counter, confirmation_event, ioVars, safe_seen,
                   cancelled>>

\* _execute_stream: agent.stream yields the next AI message; its tool calls
\* are handed to on_tool_call one by one before the stream is resumed
W_LLM(t) ==
    /\ wpc[t] = "llm"
    /\ \E cl \in CallLists :
         IF cl = <<>>
         THEN /\ wpc' = [wpc EXCEPT ![t] = "finish"]
              /\ UNCHANGED <<msgs, mi, ci, calls>>
         ELSE /\ Len(msgs[t]) < MaxToolMsgs
              /\ calls' = [calls EXCEPT ![t] = WithCalls(@, cl, FALSE, FALSE)]
              /\ msgs' = [msgs EXCEPT ![t] = Append(@, NewMessage(calls[t], cl))]
              /\ mi' = [mi EXCEPT ![t] = Len(msgs[t]) + 1]
              /\ ci' = [ci EXCEPT ![t] = 1]
              /\ wpc' = [wpc EXCEPT ![t] = "call"]
    /\ UNCHANGED <<extVars, convVars, sessVars, dagVars, execVars, modeVars, connVars, transport, planned,
                   steps_left, step_counter, confirmation_event, ioVars,
                   safe_seen, cancelled>>

\* the end of a plan step: the next step, or summarize_results
StepEnd(t) ==
    /\ steps_left' = [steps_left EXCEPT ![t] = @ - 1]
    /\ wpc' = [wpc EXCEPT ![t] = IF steps_left[t] > 1 THEN "invoke" ELSE "finish"]
    /\ msgs' = [msgs EXCEPT ![t] = <<>>]
    /\ mi' = [mi EXCEPT ![t] = 0]
    /\ ci' = [ci EXCEPT ![t] = 0]

\* _execute_step_isolated, agent.invoke: the whole LLM/tool loop of the step
\* runs, every requested tool is invoked; when the LLM requests no more tool
\* the call returns and the returned messages are replayed to the callbacks
W_Invoke(t) ==
    /\ wpc[t] = "invoke"
    /\ \E cl \in CallLists :
         IF cl # <<>>
         THEN /\ Len(msgs[t]) < MaxToolMsgs
              /\ calls' = [calls EXCEPT ![t] = WithCalls(@, cl, TRUE, cancelled[t])]
              /\ msgs' = [msgs EXCEPT ![t] = Append(@, NewMessage(calls[t], cl))]
              /\ UNCHANGED <<wpc, mi, ci, steps_left>>
         ELSE IF msgs[t] = <<>>
         THEN StepEnd(t) /\ calls' = calls
         ELSE /\ wpc' = [wpc EXCEPT ![t] = "call"]
              /\ mi' = [mi EXCEPT ![t] = 1]
              /\ ci' = [ci EXCEPT ![t] = 1]
              /\ UNCHANGED <<msgs, steps_left, calls>>
    /\ UNCHANGED <<extVars, convVars, sessVars, dagVars, execVars, modeVars, connVars, transport, planned,
                   step_counter, confirmation_event, ioVars, safe_seen,
                   cancelled>>

\* after on_tool_call returned: the next call of the message, else the tools
\* (direct execution) or the ToolMessages of the replay
AfterCall(t) ==
    IF ci[t] < Len(msgs[t][mi[t]])
    THEN /\ ci' = [ci EXCEPT ![t] = @ + 1]
         /\ wpc' = [wpc EXCEPT ![t] = "call"]
    ELSE /\ ci' = [ci EXCEPT ![t] = 1]
         /\ wpc' = [wpc EXCEPT ![t] = IF planned[t] THEN "result" ELSE "tools"]

\* on_tool_call up to the wait: the cancel check, the step counter, the
\* privilege gate (WebSocket only; the SSE callback has neither check)
W_OnToolCall(t) ==
    /\ wpc[t] = "call"
    /\ LET c == Call(t)
           tool == calls[t][c]
           step == step_counter[t] + 1
       IN  IF transport[t] = "ws" /\ cancel_flag
           THEN /\ AfterCall(t)
                /\ calls' = [calls EXCEPT ![t][c].fired = TRUE]
                /\ UNCHANGED <<step_counter, pending, confirmation_event,
                               event_queue>>
           ELSE /\ step_counter' = [step_counter EXCEPT ![t] = step]
                /\ IF transport[t] = "ws"
                      /\ needs_confirmation(tool.tool.name, tool.args)
                   THEN /\ pending' =
                              [id \in DOMAIN pending \cup {step} |->
                                  IF id = step
                                  THEN [owner |-> t, decision |-> "none",
                                        edited_args |-> "none"]
                                  ELSE pending[id]]
                        /\ confirmation_event' =
                              [confirmation_event EXCEPT ![t] = FALSE]
                        /\ event_queue' =
                              Put(t, Event("confirmation_request", step, c, ""))
                        /\ calls' = [calls EXCEPT ![t][c] =
                              [@ EXCEPT !.fired = TRUE, !.on_call = TRUE, !.step = step,
                                        !.safe = safe_mode, !.gate = "confirm"]]
                        /\ wpc' = [wpc EXCEPT ![t] = "wait"]
                        /\ ci' = ci
                   ELSE /\ event_queue' = Put(t, Event("tool_call", step, c, ""))
                        /\ calls' = [calls EXCEPT ![t][c] =
                              [@ EXCEPT !.fired = TRUE, !.on_call = TRUE, !.step = step,
                                        !.safe = safe_mode,
                                        !.gate = IF transport[t] = "ws"
                                                 THEN "pass" ELSE "none"]]
                        /\ AfterCall(t)
                        /\ UNCHANGED <<pending, confirmation_event>>
    /\ UNCHANGED <<extVars, convVars, sessVars, dagVars, execVars, modeVars, is_processing, cancel_flag,
                   holder, frames, inbox, replies, transport, planned, steps_left,
                   msgs, mi, pump, sent, safe_seen, cancelled>>

\* on_tool_call after confirmation_event.wait(timeout=300) returned:
\* decision = pending.get("decision", "reject") of the entry now stored under
\* the id; InterruptedError leaves chat_stream and run_chat answers it with a
\* message event; else the entry is deleted and the tool_call event is put
AfterWait(t, confirmed) ==
    LET c == Call(t)
        id == step_counter[t]
        entry == IF id \in DOMAIN pending THEN pending[id]
                 ELSE [owner |-> t, decision |-> "reject", edited_args |-> "none"]
        decision == IF confirmed THEN entry.decision ELSE "timeout"
    IN  /\ IF raises_interrupted(confirmed, entry.decision)
           THEN /\ event_queue' = Put(t, Event("message", 0, 0, "interrupted"))
                /\ wpc' = [wpc EXCEPT ![t] = "finally"]
                /\ calls' = [calls EXCEPT ![t][c].decision = decision]
                /\ UNCHANGED <<pending, ci>>
           ELSE /\ pending' = [i \in DOMAIN pending \ {id} |-> pending[i]]
                /\ event_queue' = Put(t, Event("tool_call", id, c, ""))
                /\ calls' = [calls EXCEPT ![t][c] =
                      [@ EXCEPT !.decision = decision,
                                !.args = IF decision = "edit"
                                         THEN entry.edited_args ELSE @]]
                /\ AfterCall(t)
        /\ UNCHANGED <<extVars, convVars, sessVars, dagVars, execVars, modeVars, is_processing, cancel_flag,
                       holder, frames, inbox, replies, transport, planned, steps_left,
                       msgs, mi, step_counter, confirmation_event, pump, sent,
                       safe_seen, cancelled>>

\* the wait returned True: the event was set by a decision frame
W_Confirmed(t) ==
    /\ wpc[t] = "wait"
    /\ confirmation_event[t]
    /\ AfterWait(t, TRUE)

\* the receive loop is about to read a frame: the event loop is free and
\* receive_text has a frame to return
LoopCanReceive ==
    /\ holder = 0
    /\ inbox # <<>>
    /\ (Head(inbox).type = "user_message" /\ ~is_processing)
           => \E t \in Turns : FreshTurn(t)

\* the wait returned False: no decision within the timeout.  The 300 s do
\* not pass while the receive loop is about to read a frame.
W_TimedOut(t) ==
    /\ wpc[t] = "wait"
    /\ ~confirmation_event[t]
    /\ ~LoopCanReceive
    /\ AfterWait(t, FALSE)

\* direct execution: the stream is resumed and the tools node invokes the
\* tools of the message (should_cancel is not passed: nothing reads the flag)
W_Tools(t) ==
    /\ wpc[t] = "tools"
    /\ calls' = [calls EXCEPT ![t] =
                    [c \in DOMAIN @ |->
                        IF \E i \in DOMAIN msgs[t][mi[t]] : msgs[t][mi[t]][i] = c
                        THEN [@[c] EXCEPT !.executed = TRUE,
                                          !.fired_first = calls[t][c].fired,
                                          !.after_cancel = cancelled[t]]
                        ELSE @[c]]]
    /\ wpc' = [wpc EXCEPT ![t] = "result"]
    /\ ci' = [ci EXCEPT ![t] = 1]
    /\ UNCHANGED <<extVars, convVars, sessVars, dagVars, execVars, modeVars, connVars, transport, planned,
                   steps_left, msgs, mi, step_counter, confirmation_event,
                   ioVars, safe_seen, cancelled>>

\* on_tool_result for the next ToolMessage: the event carries the current
\* value of the step counter
W_OnToolResult(t) ==
    /\ wpc[t] = "result"
    /\ event_queue' = IF transport[t] = "ws" /\ cancel_flag THEN event_queue
                      ELSE Put(t, Event("tool_result", step_counter[t], Call(t), ""))
    /\ IF ci[t] < Len(msgs[t][mi[t]])
       THEN /\ ci' = [ci EXCEPT ![t] = @ + 1]
            /\ UNCHANGED <<wpc, mi, msgs, steps_left>>
       ELSE IF ~planned[t]
       THEN /\ wpc' = [wpc EXCEPT ![t] = "llm"]
            /\ UNCHANGED <<ci, mi, msgs, steps_left>>
       ELSE IF mi[t] < Len(msgs[t])
       THEN /\ wpc' = [wpc EXCEPT ![t] = "call"]
            /\ mi' = [mi EXCEPT ![t] = @ + 1]
            /\ ci' = [ci EXCEPT ![t] = 1]
            /\ UNCHANGED <<msgs, steps_left>>
       ELSE StepEnd(t)
    /\ UNCHANGED <<extVars, convVars, sessVars, dagVars, execVars, modeVars, connVars, transport, planned,
                   step_counter, confirmation_event, pump, sent, histVars>>

\* run_chat: chat_stream returned its response
W_Finish(t) ==
    /\ wpc[t] = "finish"
    /\ event_queue' = Put(t, Event("message", 0, 0, "response"))
    /\ wpc' = [wpc EXCEPT ![t] = "finally"]
    /\ UNCHANGED <<extVars, convVars, sessVars, dagVars, execVars, modeVars, connVars, transport, planned,
                   steps_left, msgs, mi, ci, step_counter, confirmation_event,
                   pump, sent, histVars>>

\* run_chat, finally: the done event
W_Finally(t) ==
    /\ wpc[t] = "finally"
    /\ event_queue' = Put(t, Event("done", 0, 0, ""))
    /\ wpc' = [wpc EXCEPT ![t] = "done"]
    /\ UNCHANGED <<extVars, convVars, sessVars, dagVars, execVars, modeVars, connVars, transport, planned,
                   steps_left, msgs, mi, ci, step_counter, confirmation_event,
                   pump, sent, histVars>>

Next ==
    \/ \E frame \in Frames : ClientSend(frame)
    \/ \E value \in BOOLEAN : SetSafeMode(value)
    \/ \E value \in {"off", "on"} : SetPlanMode(value)
    \/ UserMessage
    \/ \E t \in Turns : TaskStart(t)
    \/ \E decision \in Decisions, id \in StepIds : Decision(decision, id)
    \/ Cancel
    \/ SseRequest
    \/ \E t \in Turns, yields \in BOOLEAN : PumpSend(t, yields)
    \/ \E t \in Turns : PumpResume(t)
    \/ \E t \in Turns : PumpCancelled(t)
    \/ \E t \in Turns : W_Start(t)
    \/ \E t \in Turns : W_Plan(t)
    \/ \E t \in Turns : W_LLM(t)
    \/ \E t \in Turns : W_Invoke(t)
    \/ \E t \in Turns : W_OnToolCall(t)
    \/ \E t \in Turns : W_Confirmed(t)
    \/ \E t \in Turns : W_TimedOut(t)
    \/ \E t \in Turns : W_Tools(t)
    \/ \E t \in Turns : W_OnToolResult(t)
    \/ \E t \in Turns : W_Finish(t)
    \/ \E t \in Turns : W_Finally(t)

Spec == Init /\ [][Next]_vars

(***************************************************************************)
(* Properties of the chat turn                                             *)
(***************************************************************************)
\* the events the worker of turn t produced, in order
Log(t) == sent[t] \o event_queue[t]
Requested(t, c) ==
    \E i \in DOMAIN Log(t) :
        Log(t)[i].type = "confirmation_request" /\ Log(t)[i].call = c
HasEvent(t, type, c) ==
    \E i \in DOMAIN Log(t) : Log(t)[i].type = type /\ Log(t)[i].call = c
HasMessage(t, text) ==
    \E i \in DOMAIN Log(t) : Log(t)[i].type = "message" /\ Log(t)[i].text = text

\* C5: a tool call that reaches the privilege gate while safe_mode is off
\* gets no confirmation_request, and a turn during which safe_mode was never
\* on has no confirmation_request at all.
C5_NoConfirmationWithSafeModeOff ==
    \A t \in Turns :
        /\ \A c \in DOMAIN calls[t] :
               (calls[t][c].on_call /\ ~calls[t][c].safe) => ~Requested(t, c)
        /\ ~safe_seen[t] =>
               \A i \in DOMAIN Log(t) : Log(t)[i].type # "confirmation_request"

\* a WebSocket turn has ended, safe_mode was off all along, and an
\* execute_sql call passed the gate and was announced and run
C5_Witness ==
    \E t \in Turns :
        /\ transport[t] = "ws" /\ wpc[t] = "done" /\ ~safe_seen[t]
        /\ \E c \in DOMAIN calls[t] :
               /\ calls[t][c].tool.name = EXECUTE_SQL
               /\ calls[t][c].gate = "pass"
               /\ calls[t][c].executed
               /\ HasEvent(t, "tool_call", c)

\* of the names a tool may have, the ones the gate treats as an SQL tool
NameSamples == {EXECUTE_SQL, QUERY_DATABASE, RUN_SQL, LIST_TABLES,
                <<"R", "U", "N", "_", "S", "Q", "L">>,
                <<"m", "y", "S", "q", "l", "_", "x">>,
                <<"s", "q", "_", "l">>}
SqlNamed == {EXECUTE_SQL, QUERY_DATABASE, RUN_SQL,
             <<"R", "U", "N", "_", "S", "Q", "L">>,
             <<"m", "y", "S", "q", "l", "_", "x">>}

C7_RejectedCallNeverExecuted ==
    \A t \in Turns : \A c \in DOMAIN calls[t] :
        (Requested(t, c) /\ calls[t][c].decision = "reject")
            => ~calls[t][c].executed

C9_NoToolStartedAfterCancel ==
    \A t \in Turns : \A c \in DOMAIN calls[t] :
        calls[t][c].executed => ~calls[t][c].after_cancel

\* C10 (as claimed): every tool_result event the subscriber receives follows
\* the tool_call event of the same tool invocation, and the two carry the
\* same step.
C10_ResultCarriesTheStepOfItsCall ==
    \A t \in Turns : \A j \in DOMAIN sent[t] :
        sent[t][j].type = "tool_result" =>
            \E i \in 1..(j - 1) :
                /\ sent[t][i].type = "tool_call"
                /\ sent[t][i].call = sent[t][j].call
                /\ sent[t][i].step = sent[t][j].step

\* the events of one type among the events the worker of turn t produced
IsToolCall(e) == e.type = "tool_call"
IsToolResult(e) == e.type = "tool_result"
ToolCalls(t) == SelectSeq(Log(t), IsToolCall)
ToolResults(t) == SelectSeq(Log(t), IsToolResult)

\* C11 (as claimed): within a turn the steps carried by the tool_call events
\* are 1, 2, 3, ... in the order of the events, and so are the steps carried
\* by the tool_result events: no gap, no repeat.
C11_StepsAreContiguous ==
    \A t \in Turns :
        /\ \A i \in DOMAIN ToolCalls(t) : ToolCalls(t)[i].step = i
        /\ \A i \in DOMAIN ToolResults(t) : ToolResults(t)[i].step = i

\* C12 (as claimed): on_tool_call is called for a tool invocation before the
\* tool is invoked, and the tool_result event of an invocation is produced
\* after the tool was invoked, in direct execution and in the execution of a
\* plan step.
C12_CallbackBeforeDispatch ==
    \A t \in Turns : \A c \in DOMAIN calls[t] :
        /\ (calls[t][c].fired /\ calls[t][c].executed) => calls[t][c].fired_first
        /\ HasEvent(t, "tool_result", c) => calls[t][c].executed

\* C13 (as claimed): when the client has sent an approve decision for a tool
\* call whose confirmation_request it received and whose worker is still
\* waiting, the wait of that call does not end by the timeout.
C13_ApprovedWaitDoesNotTimeOut ==
    \A t \in Turns : \A c \in DOMAIN calls[t] :
        calls[t][c].approve_sent => calls[t][c].decision # "timeout"

\* every WebSocket turn of the connection has finished, its done event sent
AllTurnsDone ==
    /\ \E t \in Turns : transport[t] = "ws"
    /\ \A t \in Turns : transport[t] = "ws" =>
           /\ pump[t] = "ended"
           /\ sent[t] # <<>> /\ sent[t][Len(sent[t])].type = "done"

\* C14 (as claimed): a user_message read by the receive loop after every turn
\* of the connection has finished is not answered with the error of a turn
\* still being processed.
C14_NextMessageAccepted ==
    [][(AllTurnsDone /\ inbox # <<>> /\ Head(inbox).type = "user_message"
        /\ inbox' = Tail(inbox))
           => replies' = replies]_vars

(***************************************************************************)
(* Sessions: SessionManager (session/manager.py) and the Python sandbox    *)
(* that runs code for the agent of a session (sandbox/microsandbox.py).    *)
(* One action per call; a call is atomic (the module has no lock, the      *)
(* callers run on one thread unless noted).                                *)
(***************************************************************************)
\* the object SessionManager.__init__ initialises
NewSession(session_id) ==
    [session_id |-> session_id,
     sandbox_unavailable |-> FALSE,
     execution_context |-> {}]

SessionDir(session_id) == Entry(session_id, TRUE)

\* _create_session_dirs: mkdir(parents=True, exist_ok=True)
create_session_dirs(entries, session_id) == entries \cup {SessionDir(session_id)}

\* _cleanup_old_sessions: the directories other than the session's own
Siblings(entries, session_id) ==
    {e \in entries : e.is_dir /\ e.name # session_id}

\* _cleanup_old_sessions: the siblings it calls shutil.rmtree on
OldSiblings(entries, session_id, today) ==
    {e \in Siblings(entries, session_id) : IsOld(e.name, today)}

\* _cleanup_old_sessions: the siblings whose name raises ValueError, which
\* the except clause logs
UnparsableSiblings(entries, session_id) ==
    {e \in Siblings(entries, session_id) : Unparsable(e.name)}

\* _cleanup_old_sessions: `failing` are the old siblings shutil.rmtree
\* raises OSError on, `removed` the ones it removed. iterdir() yields in
\* any order and only (ValueError, IndexError) are caught, so the first
\* failing removal ends the scan with the exception.
cleanup_old_sessions_Outcomes(entries, session_id, today) ==
    LET old == OldSiblings(entries, session_id, today)
    IN  {[failing |-> f, removed |-> r, raised |-> f # {}] :
            <<f, r>> \in {<<f, r>> \in (SUBSET old) \X (SUBSET old) :
                            /\ r \cap f = {}
                            /\ f = {} => r = old}}

\* is_sandbox_available
is_sandbox_available(session) == ~session.sandbox_unavailable

\* mark_sandbox_unavailable
mark_sandbox_unavailable(session) ==
    [session EXCEPT !.sandbox_unavailable = TRUE]

\* the files under a directory go with it
Without(files, removed) ==
    {x \in files : SessionDir(x.dir) \notin removed}

\* a server process starts: directories of earlier runs may lie in
\* SESSIONS_DIR
InitSession ==
    /\ nodes = <<>>
    /\ status = <<>>
    /\ sortResult = NotSorted
    /\ validateErrors = NotValidated
    /\ ExecIdle
    /\ WsIdle
    /\ ConvIdle
    /\ ExtIdle
    /\ NoSessions
    /\ \E dirs \in SUBSET SessionNames :
          disk = {SessionDir(name) : name \in dirs} \cup {StrayFile}
    /\ now = RETENTION_DAYS + 1
    /\ sandbox_enabled \in BOOLEAN

\* SessionManager(session_id): DataAgent.__init__, POST /sessions/new and
\* get_current_session of the routes construct one; a second agent for the
\* same id (another transport, or after POST /chat/reset) constructs one too.
CreateSession(session_id) ==
    /\ Len(sessions) < MaxSessions
    /\ LET made == create_session_dirs(disk, session_id)
           self == Len(sessions) + 1
       IN  \E o \in cleanup_old_sessions_Outcomes(made, session_id, now) :
             /\ disk' = made \ o.removed
             /\ exported' = Without(exported, o.removed)
             /\ IF o.raised
                THEN UNCHANGED <<sessions, current_session, session_registry>>
                ELSE /\ sessions' = Append(sessions, NewSession(session_id))
                     /\ current_session' = self
                     /\ session_registry' =
                            [session_registry EXCEPT ![session_id] = self]
             /\ last_op' = [op |-> "create", name |-> session_id,
                            behalf |-> 0, used |-> 0,
                            unparsable |-> UnparsableSiblings(made, session_id),
                            unremovable |-> o.failing,
                            raised |-> o.raised]
    /\ UNCHANGED <<now, sandbox_enabled, marked>>
    /\ UNCHANGED <<dagVars, execVars, wsVars, convVars, extVars>>

\* mark_sandbox_unavailable called on the session the registry or the
\* current-session global gives
MarkSandboxUnavailable(i) ==
    /\ i \in DOMAIN sessions
    /\ \/ i = current_session
       \/ session_registry[sessions[i].session_id] = i
    /\ sessions' = [sessions EXCEPT ![i] = mark_sandbox_unavailable(@)]
    /\ marked' = marked \cup {sessions[i].session_id}
    /\ last_op' = [NoOp EXCEPT !.op = "mark", !.name = sessions[i].session_id]
    /\ UNCHANGED <<current_session, session_registry, disk, exported, now,
                   sandbox_enabled>>
    /\ UNCHANGED <<dagVars, execVars, wsVars, convVars, extVars>>

\* _execute_local: injects the variables of the sandbox's session, saves the
\* user's variables to it, and the code writes a file to EXPORT_DIR
execute_local(ss, files, entries, used, owner) ==
    IF used = 0
    THEN [sessions |-> ss, exported |-> files]
    ELSE [sessions |-> [ss EXCEPT ![used].execution_context = @ \cup {owner}],
          exported |-> IF SessionDir(ss[used].session_id) \in entries
                       THEN files \cup {[dir |-> ss[used].session_id,
                                         by |-> owner]}
                       ELSE files]

\* execute_python_sync called by the tool of the agent that holds session i:
\* DataAgentSandbox.__init__ takes get_current_session(), execute runs the
\* code. outcome is what the MicroSandbox server does with it.
ExecutePython(i, outcome) ==
    /\ i \in DOMAIN sessions
    /\ LET used == current_session
           owner == sessions[i].session_id
           local_only == \/ ~sandbox_enabled
                         \/ used # 0 /\ ~is_sandbox_available(sessions[used])
           marks == ~local_only /\ outcome = "unavailable" /\ used # 0
           ss == IF marks
                 THEN [sessions EXCEPT ![used] = mark_sandbox_unavailable(@)]
                 ELSE sessions
           runs_local == local_only \/ outcome = "unavailable"
           r == IF runs_local
                THEN execute_local(ss, exported, disk, used, owner)
                ELSE [sessions |-> ss, exported |-> exported]
       IN  /\ local_only => outcome = "local"
           /\ ~local_only => outcome \in {"sandbox", "timeout", "unavailable"}
           /\ sessions' = r.sessions
           /\ exported' = r.exported
           /\ marked' = IF marks THEN marked \cup {sessions[used].session_id}
                        ELSE marked
           /\ last_op' = [NoOp EXCEPT !.op = "execute", !.name = owner,
                                      !.behalf = i,
                                      !.used = IF runs_local THEN used ELSE 0]
    /\ UNCHANGED <<current_session, session_registry, disk, now,
                   sandbox_enabled>>
    /\ UNCHANGED <<dagVars, execVars, wsVars, convVars, extVars>>

\* SessionManager.cleanup of object i; shutil.rmtree may raise
CleanupSession(i, fails_rmtree) ==
    /\ i \in DOMAIN sessions
    /\ LET id == sessions[i].session_id
       IN  /\ fails_rmtree => SessionDir(id) \in disk
           /\ IF fails_rmtree
              THEN UNCHANGED <<disk, exported, current_session,
                               session_registry, marked>>
              ELSE /\ disk' = disk \ {SessionDir(id)}
                   /\ exported' = Without(exported, {SessionDir(id)})
                   /\ current_session' =
                          IF current_session = i THEN 0 ELSE current_session
                   /\ session_registry' = [session_registry EXCEPT ![id] = 0]
                   /\ marked' = marked \ {id}
           /\ last_op' = [NoOp EXCEPT !.op = "cleanup", !.name = id,
                                      !.raised = fails_rmtree]
    /\ UNCHANGED <<sessions, now, sandbox_enabled>>
    /\ UNCHANGED <<dagVars, execVars, wsVars, convVars, extVars>>

\* time passes
AdvanceClock ==
    /\ now < MaxDay
    /\ now' = now + 1
    /\ last_op' = NoOp
    /\ UNCHANGED <<sessions, current_session, session_registry, disk,
                   exported, sandbox_enabled, marked>>
    /\ UNCHANGED <<dagVars, execVars, wsVars, convVars, extVars>>

NextSession ==
    \/ \E session_id \in SessionNames : CreateSession(session_id)
    \/ \E i \in 1..MaxSessions : MarkSandboxUnavailable(i)
    \/ \E i \in 1..MaxSessions :
          \E outcome \in {"local", "sandbox", "timeout", "unavailable"} :
             ExecutePython(i, outcome)
    \/ \E i \in 1..MaxSessions : \E fails_rmtree \in BOOLEAN :
          CleanupSession(i, fails_rmtree)
    \/ AdvanceClock

SpecSession == InitSession /\ [][NextSession]_vars

\* get_session_by_id(session_id), 0: None
get_session_by_id(session_id) == session_registry[session_id]

\* C15: once mark_sandbox_unavailable was called for a session id, the
\* session registered under that id reports the sandbox unavailable until
\* the session is cleaned up, whatever else happens (re-creating the agent
\* of that id included)
C15_SandboxUnavailableIsMonotonic ==
    \A id \in marked :
        get_session_by_id(id) # 0 =>
            ~is_sandbox_available(sessions[get_session_by_id(id)])

\* C16: the directories of every registered session exist on disk
C16_RegisteredSessionHasItsDirectories ==
    \A id \in SessionNames :
        get_session_by_id(id) # 0 => SessionDir(id) \in disk

\* C17: a creation that met a sibling whose name cannot be parsed, or whose
\* removal failed, did not raise: the new session is registered and current
C17_ReapingFailuresAreNotFatal ==
    (last_op.op = "create"
        /\ (last_op.unparsable # {} \/ last_op.unremovable # {}))
    => /\ ~last_op.raised
       /\ get_session_by_id(last_op.name) # 0
       /\ current_session = get_session_by_id(last_op.name)

\* C18: code executed for a session uses the variable store and the
\* directories of that session only: every variable store holds only what
\* the code of its own session saved, every session directory only files
\* of its own session, and the store an execution read is its session's
C18_SessionOwnsItsStoreAndDirectories ==
    /\ \A k \in DOMAIN sessions :
          sessions[k].execution_context \subseteq {sessions[k].session_id}
    /\ \A x \in exported : x.by = x.dir
    /\ (last_op.op = "execute" /\ last_op.used # 0)
          => sessions[last_op.used].session_id = last_op.name

\* C19: a node is set to running only from pending, and a node in a
\* terminal status keeps it through every step of every scheduler call
C19_StatusOnlyMovesForward ==
    [][\A i \in Positions(nodes) :
          /\ (status'[i] = RUNNING /\ status[i] # RUNNING) => status[i] = PENDING
          /\ status[i] \in {COMPLETED, FAILED, SKIPPED} => status'[i] = status[i]
      ]_vars

\* a reference of the node's parameter named no recorded result when
\* _resolve_params ran
HasUnknownRef(n) == \E k \in DOMAIN resolved[n] : resolved[n][k].kind = "ref"

\* C20: a node whose parameter holds a reference to an id without a
\* recorded result ends failed, with an error recorded under its id
C20_UnknownReferenceFailsTheNode ==
    \A n \in Positions(nodes) :
        (HasUnknownRef(n) /\ status[n] \notin {PENDING, RUNNING})
        => /\ status[n] = FAILED
           /\ results[nodes[n].id] = "error"

(***************************************************************************)
(* SpecHistory: the message history of a DataAgent (agent/deep_agent.py)   *)
(* and its compaction (agent/compactor.py). Token counts are scaled: a     *)
(* message costs the tokens of its content plus 4.                         *)
(***************************************************************************)
\* the tokens of a message's content: a short message, a long one
ContentSizes == {2, 40}

\* the tokens of a summary: 2-3 sentences
SummarySizes == {2}

\* the settings of the runs: compaction off, and a context of 100 tokens
\* with threshold 80% and 10% or 50% kept
SettingsSamples ==
    {Settings(0, 80, 10), Settings(100, 80, 10), Settings(100, 80, 50)}

Message(role, content, tool_calls) ==
    [role |-> role, content |-> content, tool_calls |-> tool_calls]
HumanMessage(content) == Message("user", content, FALSE)
SystemMessage(content) == Message("system", content, FALSE)

\* what agent.stream / agent.invoke yields for a turn: the final answer, or
\* a tool-calling message, the tool's message and the final answer
Exchanges ==
    { <<[role |-> "assistant", tool_calls |-> FALSE]>>,
      <<[role |-> "assistant", tool_calls |-> TRUE],
        [role |-> "tool", tool_calls |-> FALSE],
        [role |-> "assistant", tool_calls |-> FALSE]>> }

\* the per-message overhead of count_tokens
MessageOverhead == 4

\* _count_single_message
count_single_message(msg) == msg.content + MessageOverhead

\* count_tokens
RECURSIVE count_tokens(_)
count_tokens(history) ==
    IF history = <<>> THEN 0
    ELSE count_single_message(Head(history)) + count_tokens(Tail(history))

\* should_compact: usage_ratio >= threshold
should_compact(history, max_tokens, threshold) ==
    IF max_tokens <= 0 THEN FALSE
    ELSE count_tokens(history) * 100 >= threshold * max_tokens

\* compact, the loop over reversed(messages): the index the recent messages
\* start at
RECURSIVE TakeRecent(_, _, _, _)
TakeRecent(history, k, recent_tokens, keep_tokens) ==
    IF k = 0 THEN 1
    ELSE IF recent_tokens + count_single_message(history[k]) > keep_tokens
         THEN k + 1
         ELSE TakeRecent(history, k - 1,
                         recent_tokens + count_single_message(history[k]),
                         keep_tokens)

\* _is_human_message
is_human_message(msg) == msg.role = "user"

\* _ensure_start_with_human
ensure_start_with_human(history) ==
    IF \E i \in DOMAIN history : is_human_message(history[i])
    THEN LET i == CHOOSE j \in DOMAIN history :
                      /\ is_human_message(history[j])
                      /\ \A h \in 1..(j - 1) : ~is_human_message(history[h])
         IN  SubSeq(history, i, Len(history))
    ELSE history

\* compact: the recent messages it keeps
RecentMessages(history, max_tokens, keep_ratio) ==
    ensure_start_with_human(
        SubSeq(history,
               TakeRecent(history, Len(history), 0, (max_tokens * keep_ratio) \div 100),
               Len(history)))

\* compact: old_messages
OldMessages(history, max_tokens, keep_ratio) ==
    SubSeq(history, 1, Len(history) - Len(RecentMessages(history, max_tokens, keep_ratio)))

\* compact, summary being the content _generate_summary returned
compact(history, max_tokens, keep_ratio, summary) ==
    IF OldMessages(history, max_tokens, keep_ratio) = <<>>
    THEN history
    ELSE <<SystemMessage(summary)>> \o RecentMessages(history, max_tokens, keep_ratio)

\* _prepare_messages: the outcomes of the call; the summariser LLM may raise
\* when _generate_summary is reached
prepare_messages_Outcomes(history, st) ==
    IF ~should_compact(history, st.max_context_tokens, st.compact_threshold)
    THEN {[NotCompacted EXCEPT !.output = history]}
    ELSE LET old == OldMessages(history, st.max_context_tokens, st.compact_keep_ratio)
         IN  {[called |-> TRUE, raised |-> FALSE, compacted |-> old # <<>>,
               input |-> history,
               output |-> compact(history, st.max_context_tokens,
                                  st.compact_keep_ratio, summary)] :
                 summary \in SummarySizes}
             \cup (IF old # <<>>
                   THEN {[called |-> TRUE, raised |-> TRUE, compacted |-> FALSE,
                          input |-> history, output |-> <<>>]}
                   ELSE {})

\* a process starts with a new DataAgent
InitHistory ==
    /\ nodes = <<>>
    /\ status = <<>>
    /\ sortResult = NotSorted
    /\ validateErrors = NotValidated
    /\ ExecIdle
    /\ WsIdle
    /\ SessIdle
    /\ ExtIdle
    /\ messages = <<>>
    /\ hpc = "idle"
    /\ messages_to_send = <<>>
    /\ collected_messages = <<>>
    /\ to_stream = <<>>
    /\ conv_turns = 0
    /\ settings \in SettingsSamples
    /\ turn_outcome = "none"
    /\ before_turn = <<>>
    /\ compaction = NotCompacted

\* the messages of an exchange, with the content sizes given
WithSizes(exchange, sizes) ==
    [k \in DOMAIN exchange |->
        Message(exchange[k].role, sizes[k], exchange[k].tool_calls)]

\* _execute_stream up to the call of agent.stream: the user message is
\* appended to self._messages, _prepare_messages runs
ExecuteStream(content) ==
    /\ hpc = "idle"
    /\ conv_turns < MaxConvTurns
    /\ conv_turns' = conv_turns + 1
    /\ before_turn' = messages
    /\ messages' = Append(messages, HumanMessage(content))
    /\ \E c \in prepare_messages_Outcomes(messages', settings) :
          /\ compaction' = c
          /\ IF c.raised
             THEN /\ hpc' = "idle"
                  /\ turn_outcome' = "failed"
                  /\ UNCHANGED <<messages_to_send, collected_messages,
                                 to_stream>>
             ELSE /\ hpc' = "streaming"
                  /\ turn_outcome' = "running"
                  /\ messages_to_send' = c.output
                  /\ collected_messages' = c.output
                  /\ to_stream' \in Exchanges
    /\ UNCHANGED settings
    /\ UNCHANGED <<dagVars, execVars, wsVars, sessVars, extVars>>

\* one message of the stream: collected_messages.append(msg)
StreamMessage(content) ==
    /\ hpc = "streaming"
    /\ to_stream # <<>>
    /\ collected_messages' =
          Append(collected_messages,
                 Message(Head(to_stream).role, content,
                         Head(to_stream).tool_calls))
    /\ to_stream' = Tail(to_stream)
    /\ UNCHANGED <<messages, hpc, messages_to_send, conv_turns, settings,
                   turn_outcome, before_turn, compaction>>
    /\ UNCHANGED <<dagVars, execVars, wsVars, sessVars, extVars>>

\* InterruptedError leaves _execute_stream: should_cancel() was true at an
\* event of the stream, or on_tool_call raised it
StreamInterrupted ==
    /\ hpc = "streaming"
    /\ to_stream # <<>>
    /\ hpc' = "idle"
    /\ turn_outcome' = "interrupted"
    /\ UNCHANGED <<messages, messages_to_send, collected_messages, to_stream,
                   conv_turns, settings, before_turn, compaction>>
    /\ UNCHANGED <<dagVars, execVars, wsVars, sessVars, extVars>>

\* agent.stream raises (the LLM call or a tool node fails)
StreamFailed ==
    /\ hpc = "streaming"
    /\ to_stream # <<>>
    /\ hpc' = "idle"
    /\ turn_outcome' = "failed"
    /\ UNCHANGED <<messages, messages_to_send, collected_messages, to_stream,
                   conv_turns, settings, before_turn, compaction>>
    /\ UNCHANGED <<dagVars, execVars, wsVars, sessVars, extVars>>

\* the stream is exhausted: self._messages = collected_messages
StreamEnd ==
    /\ hpc = "streaming"
    /\ to_stream = <<>>
    /\ messages' = collected_messages
    /\ hpc' = "idle"
    /\ turn_outcome' = "answered"
    /\ UNCHANGED <<messages_to_send, collected_messages, to_stream,
                   conv_turns, settings, before_turn, compaction>>
    /\ UNCHANGED <<dagVars, execVars, wsVars, sessVars, extVars>>

\* DataAgent.chat: append, _prepare_messages, agent.invoke, whose result
\* replaces the history; invoke may raise
Chat(content, invoke_raises) ==
    /\ hpc = "idle"
    /\ conv_turns < MaxConvTurns
    /\ conv_turns' = conv_turns + 1
    /\ before_turn' = messages
    /\ \E c \in prepare_messages_Outcomes(Append(messages, HumanMessage(content)),
                                          settings) :
       \E exchange \in Exchanges :
       \E sizes \in [DOMAIN exchange -> ContentSizes] :
          /\ compaction' = c
          /\ messages_to_send' = c.output
          /\ IF c.raised \/ invoke_raises
             THEN /\ messages' = Append(messages, HumanMessage(content))
                  /\ turn_outcome' = "failed"
             ELSE /\ messages' = c.output \o WithSizes(exchange, sizes)
                  /\ turn_outcome' = "answered"
    /\ UNCHANGED <<hpc, collected_messages, to_stream, settings>>
    /\ UNCHANGED <<dagVars, execVars, wsVars, sessVars, extVars>>

\* _sync_chat_with_tools (POST /chat): append, agent.invoke on the whole
\* history, whose result replaces it; invoke may raise
SyncChatWithTools(content, invoke_raises) ==
    /\ hpc = "idle"
    /\ conv_turns < MaxConvTurns
    /\ conv_turns' = conv_turns + 1
    /\ before_turn' = messages
    /\ compaction' = NotCompacted
    /\ \E exchange \in Exchanges :
       \E sizes \in [DOMAIN exchange -> ContentSizes] :
          /\ messages_to_send' = Append(messages, HumanMessage(content))
          /\ IF invoke_raises
             THEN /\ messages' = Append(messages, HumanMessage(content))
                  /\ turn_outcome' = "failed"
             ELSE /\ messages' = Append(messages, HumanMessage(content))
                                    \o WithSizes(exchange, sizes)
                  /\ turn_outcome' = "answered"
    /\ UNCHANGED <<hpc, collected_messages, to_stream, settings>>
    /\ UNCHANGED <<dagVars, execVars, wsVars, sessVars, extVars>>

NextHistory ==
    \/ \E content \in ContentSizes : ExecuteStream(content)
    \/ \E content \in ContentSizes : StreamMessage(content)
    \/ StreamInterrupted
    \/ StreamFailed
    \/ StreamEnd
    \/ \E content \in ContentSizes : \E invoke_raises \in BOOLEAN :
          Chat(content, invoke_raises)
    \/ \E content \in ContentSizes : \E invoke_raises \in BOOLEAN :
          SyncChatWithTools(content, invoke_raises)

SpecHistory == InitHistory /\ [][NextHistory]_vars

\* C21: a compacted history begins with one system summary message, which a
\* user message follows
C21_SummaryThenUserMessage ==
    compaction.compacted =>
        /\ Len(compaction.output) >= 2
        /\ compaction.output[1].role = "system"
        /\ compaction.output[2].role = "user"

\* C22: a turn whose summariser call raised is not failed by it: it goes on
\* with the history as it was, and is answered
C22_SummaryFailureIsNotFatal ==
    compaction.raised =>
        /\ turn_outcome # "failed"
        /\ hpc = "streaming" => messages_to_send = compaction.input

\* the history holds a complete exchange after what it held before: a user
\* message and the messages up to a final answer
CompleteExchangeAdded ==
    /\ Len(messages) >= Len(before_turn) + 2
    /\ SubSeq(messages, 1, Len(before_turn)) = before_turn
    /\ messages[Len(before_turn) + 1].role = "user"
    /\ messages[Len(messages)].role = "assistant"
    /\ ~messages[Len(messages)].tool_calls

\* C30: a turn that was cancelled or failed left the history as it was
\* before the turn, or extended by the turn's complete exchange
C30_FailedTurnLeavesNoHalfExchange ==
    (hpc = "idle" /\ turn_outcome \in {"interrupted", "failed"})
    => (messages = before_turn \/ CompleteExchangeAdded)

(***************************************************************************)
(* SpecRoundTrip: DAGPlan.to_dict and DAGPlan.from_dict (dag/models.py)    *)
(* on plans with every field of DAGNode. A member of NodeStatus is         *)
(* [name, value]; None is the string "None".                               *)
(***************************************************************************)
None == "None"

\* the members of NodeStatus
StatusMember(name, value) == [name |-> name, value |-> value]
NodeStatusMembers ==
    { StatusMember("PENDING", PENDING), StatusMember("RUNNING", RUNNING),
      StatusMember("COMPLETED", COMPLETED), StatusMember("FAILED", FAILED),
      StatusMember("SKIPPED", SKIPPED) }

\* member.name
EnumName(member) == member.name

\* member.value
EnumValue(member) == member.value

\* NodeStatus(value): the member of that value; ValueError for any other
NodeStatusOf(value) ==
    IF \E m \in NodeStatusMembers : m.value = value
    THEN CHOOSE m \in NodeStatusMembers : m.value = value
    ELSE StatusMember("ValueError", value)

\* a DAGNode with all its fields
FullNode(id, tool, node_params, dependencies, node_status, result, error) ==
    [id |-> id, name |-> id, tool |-> tool, params |-> node_params,
     dependencies |-> dependencies, status |-> node_status,
     result |-> result, error |-> error, execution_time |-> 0]

\* the nodes serialised: two ids, a tool with or without parameters, no or
\* one dependency, every status with the result or error that goes with it
TripNodes ==
    {FullNode(id, tp[1], tp[2], deps, st, IF st.value = COMPLETED THEN "ok" ELSE None,
              IF st.value = FAILED THEN "boom" ELSE None) :
        id \in {"a", "b"},
        tp \in {<<"execute_sql", [query |-> "select 1"]>>,
                <<"train_model", <<>>>>},
        deps \in {<<>>, <<"a">>},
        st \in NodeStatusMembers}

RECURSIVE TripNodeLists(_)
TripNodeLists(n) ==
    IF n = 0 THEN {<<>>}
    ELSE TripNodeLists(n - 1)
         \cup {Append(ns, node) :
                  ns \in {l \in TripNodeLists(n - 1) : Len(l) = n - 1},
                  node \in TripNodes}

\* a DAGPlan
Plan(ns, name, description) ==
    [nodes |-> ns, name |-> name, description |-> description]

TripPlans == {Plan(ns, "plan", "") : ns \in TripNodeLists(MaxTripNodes)}

\* dict.get(key, default)
Get(data, key, default) == IF key \in DOMAIN data THEN data[key] ELSE default

\* DAGNode.to_dict
node_to_dict(node) ==
    [id |-> node.id, name |-> node.name, tool |-> node.tool,
     params |-> node.params, dependencies |-> node.dependencies,
     status |-> EnumValue(node.status), result |-> node.result,
     error |-> node.error, execution_time |-> node.execution_time]

\* DAGNode.from_dict
node_from_dict(data) ==
    [id |-> data["id"], name |-> data["name"], tool |-> data["tool"],
     params |-> Get(data, "params", <<>>),
     dependencies |-> Get(data, "dependencies", <<>>),
     status |-> NodeStatusOf(Get(data, "status", PENDING)),
     result |-> Get(data, "result", None),
     error |-> Get(data, "error", None),
     execution_time |-> Get(data, "execution_time", 0)]

\* DAGPlan.to_dict
to_dict(plan) ==
    [name |-> plan.name, description |-> plan.description,
     nodes |-> [k \in DOMAIN plan.nodes |-> node_to_dict(plan.nodes[k])]]

\* DAGPlan.from_dict
from_dict(data) ==
    LET ns == Get(data, "nodes", <<>>)
    IN  Plan([k \in DOMAIN ns |-> node_from_dict(ns[k])],
             Get(data, "name", "plan"), Get(data, "description", ""))

InitRoundTrip ==
    /\ nodes = <<>>
    /\ status = <<>>
    /\ sortResult = NotSorted
    /\ validateErrors = NotValidated
    /\ ExecIdle
    /\ WsIdle
    /\ SessIdle
    /\ ConvIdle
    /\ ModesIdle
    /\ SharedIdle
    /\ \E plan \in TripPlans :
          round_trip = [NoRoundTrip EXCEPT !.plan = plan, !.stage = "plan"]

\* p.to_dict()
CallToDict ==
    /\ round_trip.stage = "plan"
    /\ round_trip' = [round_trip EXCEPT !.stage = "dict",
                                        !.dict = to_dict(round_trip.plan)]
    /\ UNCHANGED <<dagVars, execVars, wsVars, sessVars, convVars, modesVars, sharedVars>>

\* DAGPlan.from_dict(d)
CallFromDict ==
    /\ round_trip.stage = "dict"
    /\ round_trip' = [round_trip EXCEPT !.stage = "back",
                                        !.back = from_dict(round_trip.dict)]
    /\ UNCHANGED <<dagVars, execVars, wsVars, sessVars, convVars, modesVars, sharedVars>>

NextRoundTrip == CallToDict \/ CallFromDict

SpecRoundTrip == InitRoundTrip /\ [][NextRoundTrip]_vars

\* C23: the plan read back from the dictionary of a plan has the same node
\* ids in the same order and, node by node, the same tool, params,
\* dependencies and status
C23_RoundTripKeepsThePlan ==
    round_trip.stage = "back" =>
        /\ Len(round_trip.back.nodes) = Len(round_trip.plan.nodes)
        /\ \A k \in DOMAIN round_trip.plan.nodes :
              LET was == round_trip.plan.nodes[k]
                  is == round_trip.back.nodes[k]
              IN  /\ is.id = was.id
                  /\ is.tool = was.tool
                  /\ is.params = was.params
                  /\ is.dependencies = was.dependencies
                  /\ is.status = was.status

\* a plan with a node in a terminal status and a node with parameters and a
\* dependency was read back
C23_Witness ==
    /\ round_trip.stage = "back"
    /\ \E k \in DOMAIN round_trip.plan.nodes :
          round_trip.plan.nodes[k].status.value \in {COMPLETED, FAILED, SKIPPED}
    /\ \E k \in DOMAIN round_trip.plan.nodes :
          /\ round_trip.plan.nodes[k].params # <<>>
          /\ round_trip.plan.nodes[k].dependencies # <<>>

(***************************************************************************)
(* SpecModes: the ModeManager singleton, the file it persists to, and the  *)
(* routes of /api/modes.                                                   *)
(***************************************************************************)

\* MODE_DEFINITIONS: the attribute and the allowed values of every mode key
MODE_DEFINITIONS ==
    [plan    |-> [attr |-> "plan_mode", allowed_values |-> {"off", "on", "auto"}],
     auto    |-> [attr |-> "auto_execute", allowed_values |-> {"on", "off"}],
     safe    |-> [attr |-> "safe_mode", allowed_values |-> {"on", "off"}],
     verbose |-> [attr |-> "verbose", allowed_values |-> {"on", "off"}],
     preview |-> [attr |-> "preview_limit",
                  allowed_values |-> {"10", "50", "100", "all"}],
     export  |-> [attr |-> "export_mode", allowed_values |-> {"on", "off"}]]

\* the keys in the order the dictionary lists them
ModeKeyOrder == <<"plan", "auto", "safe", "verbose", "preview", "export">>

\* str.lower() on the texts that are sent as mode values
ModeLowerCase == ("ON" :> "on") @@ ("OFF" :> "off") @@ ("ALL" :> "all")
                    @@ ("Auto" :> "auto")
str_lower(text) ==
    IF text \in DOMAIN ModeLowerCase THEN ModeLowerCase[text] ELSE text

\* the texts a client, a command line or the environment may supply
ValueSamples == {"on", "off", "auto", "all", "ALL", "bogus"}

ValueError == PyValue("raise", "ValueError", "")
Raises(value) == value.type = "raise"
IsEnum(value) == value.type \in {"PlanModeValue", "PreviewLimitValue"}

\* PlanModeValue(x), PreviewLimitValue(x): the member whose value is x,
\* a member itself unchanged, ValueError for anything else
EnumCall(enum, x) ==
    IF x \in enum THEN x
    ELSE IF x.type = "str" /\ \E m \in enum : m.value = x.value
         THEN CHOOSE m \in enum : m.value = x.value
         ELSE ValueError
PlanModeValue_call(x) == EnumCall(PlanModeValue, x)
\* PreviewLimitValue[x]: the member looked up by its name
PreviewLimitValue_getitem(x) ==
    IF x.type = "str" /\ \E m \in PreviewLimitValue : m.name = x.value
    THEN CHOOSE m \in PreviewLimitValue : m.name = x.value
    ELSE ValueError
PreviewLimitValue_call(x) == EnumCall(PreviewLimitValue, x)

\* json.dump and json.load of one value
JsonValue(kind, text) == [json |-> kind, text |-> text]
json_dump(value) ==
    IF value.type = "bool"
    THEN JsonValue("boolean", IF value = Bool(TRUE) THEN "true" ELSE "false")
    ELSE JsonValue("string", value.value)
json_load(j) ==
    IF j.json = "boolean" THEN Bool(j.text = "true") ELSE Str(j.text)

\* ModeConfig(**data): the fields must have their declared types
ModeConfig_validates(data) ==
    /\ data.plan_mode \in PlanModeValue
    /\ data.preview_limit \in PreviewLimitValue
    /\ \A attr \in {"auto_execute", "safe_mode", "verbose", "export_mode"} :
          data[attr].type = "bool"

\* ModeManager._save_to_file: the content written for a configuration
save_to_file(config) ==
    [attr \in DOMAIN config |->
        json_dump(IF IsEnum(config[attr]) THEN Str(EnumValue(config[attr]))
                  ELSE config[attr])]

\* ModeManager._load_from_file: the configuration after reading the file
load_from_file(config, file) ==
    IF file = Absent THEN config
    ELSE LET content == CHOOSE c \in file : TRUE
             data == [attr \in DOMAIN content |-> json_load(content[attr])]
             plan == PlanModeValue_call(data.plan_mode)
             preview == PreviewLimitValue_call(data.preview_limit)
             converted == [data EXCEPT !.plan_mode = plan,
                                       !.preview_limit = preview]
         IN  IF Raises(plan) \/ Raises(preview)
                \/ ~ModeConfig_validates(converted)
             THEN config
             ELSE converted

\* ModeManager._set_mode_internal: success and the configuration afterwards
set_mode_internal(config, mode_key, value) ==
    LET attr == MODE_DEFINITIONS[mode_key].attr
        converted ==
            IF attr = "plan_mode"
            THEN IF value.type = "str"
                 THEN PlanModeValue_call(Str(str_lower(value.value)))
                 ELSE value
            ELSE IF attr = "preview_limit"
            THEN IF value.type = "str" THEN PreviewLimitValue_call(value)
                 ELSE value
            ELSE IF value.type = "str"
            THEN Bool(str_lower(value.value) \in {"on", "true", "1", "yes"})
            ELSE value
    IN  IF Raises(converted)
        THEN [success |-> FALSE, config |-> config]
        ELSE [success |-> TRUE, config |-> [config EXCEPT ![attr] = converted]]

\* ModeManager.set with persist=True: success, configuration and file
set(config, file, mode_key, value) ==
    IF mode_key \notin DOMAIN MODE_DEFINITIONS
    THEN [success |-> FALSE, config |-> config, file |-> file]
    ELSE LET r == set_mode_internal(config, mode_key, value)
         IN  [success |-> r.success, config |-> r.config,
              file |-> IF r.success THEN {save_to_file(r.config)} ELSE file]

\* ModeManager.toggle: the new value (None when not a boolean mode)
toggle(config, file, mode_key) ==
    IF mode_key \notin DOMAIN MODE_DEFINITIONS
    THEN [value |-> None, config |-> config, file |-> file]
    ELSE LET current == config[MODE_DEFINITIONS[mode_key].attr]
         IN  IF current.type = "bool"
             THEN LET r == set(config, file, mode_key,
                               Bool(current = Bool(FALSE)))
                  IN  [value |-> Bool(current = Bool(FALSE)).value,
                       config |-> r.config, file |-> r.file]
             ELSE [value |-> None, config |-> config, file |-> file]

\* ModeManager._load_from_env: every key found in the environment is set
\* in turn; env is a set of [key, value] records, one per key at most
RECURSIVE load_from_env(_, _, _)
load_from_env(config, env, i) ==
    IF i > Len(ModeKeyOrder) THEN config
    ELSE LET mode_key == ModeKeyOrder[i]
         IN  IF \E e \in env : e.key = mode_key
             THEN LET e == CHOOSE x \in env : x.key = mode_key
                  IN  load_from_env(
                          set_mode_internal(config, mode_key, Str(e.value)).config,
                          env, i + 1)
             ELSE load_from_env(config, env, i + 1)

EnvSamples ==
    { {}, {[key |-> "plan", value |-> "on"]},
      {[key |-> "preview", value |-> "ALL"], [key |-> "safe", value |-> "bogus"]} }

\* ---- the routes of the router, in the order they are declared ----------

Param == "{mode_key}"
Routes ==
    << [method |-> "GET",  path |-> <<>>,                  handler |-> "get_all_modes"],
       [method |-> "GET",  path |-> <<Param>>,             handler |-> "get_mode"],
       [method |-> "POST", path |-> <<Param>>,             handler |-> "set_mode"],
       [method |-> "POST", path |-> <<Param, "toggle">>,   handler |-> "toggle_mode"],
       [method |-> "POST", path |-> <<"reset">>,           handler |-> "reset_modes"] >>

\* a route path matches a request path segment by segment
PathMatches(route_path, path) ==
    /\ Len(route_path) = Len(path)
    /\ \A i \in 1..Len(path) : route_path[i] = Param \/ route_path[i] = path[i]

\* the router hands a request to the first route that matches
Dispatch(method, path) ==
    LET hits == { i \in 1..Len(Routes) :
                     Routes[i].method = method /\ PathMatches(Routes[i].path, path) }
    IN  IF hits = {} THEN "not_found"
        ELSE Routes[CHOOSE i \in hits : \A j \in hits : i <= j].handler

\* the handlers: status and the manager's state afterwards
set_mode(config, file, mode_key, body) ==
    IF body = {}
    THEN [status |-> 422, config |-> config, file |-> file]
    ELSE LET value == CHOOSE v \in body : TRUE
         IN  IF mode_key \notin DOMAIN MODE_DEFINITIONS
             THEN [status |-> 404, config |-> config, file |-> file]
             ELSE IF str_lower(value) \notin
                       { str_lower(v) : v \in MODE_DEFINITIONS[mode_key].allowed_values }
             THEN [status |-> 400, config |-> config, file |-> file]
             ELSE LET r == set(config, file, mode_key, Str(value))
                  IN  [status |-> IF r.success THEN 200 ELSE 500,
                       config |-> r.config, file |-> r.file]

toggle_mode(config, file, mode_key) ==
    IF mode_key \notin DOMAIN MODE_DEFINITIONS
    THEN [status |-> 404, config |-> config, file |-> file]
    ELSE IF MODE_DEFINITIONS[mode_key].allowed_values # {"on", "off"}
    THEN [status |-> 400, config |-> config, file |-> file]
    ELSE LET r == toggle(config, file, mode_key)
         IN  [status |-> IF r.value = None THEN 500 ELSE 200,
              config |-> r.config, file |-> r.file]

reset_modes(config, file) ==
    [status |-> 200, config |-> DefaultConfig,
     file |-> {save_to_file(DefaultConfig)}]

PathKeys == {"plan", "auto", "preview", "reset"}
PostPaths == { <<k>> : k \in PathKeys } \cup { <<k, "toggle">> : k \in PathKeys }
BodySamples == {{}} \cup { {v} : v \in ValueSamples }

InitModes ==
    /\ nodes = <<>>
    /\ status = <<>>
    /\ sortResult = NotSorted
    /\ validateErrors = NotValidated
    /\ ExecIdle
    /\ WsIdle
    /\ SessIdle
    /\ ConvIdle
    /\ TripIdle
    /\ ModesIdle
    /\ SharedIdle

\* a POST request to /api/modes<path>, answered by the route that matches
HttpPost(path, body) ==
    LET handler == Dispatch("POST", path)
        r == IF handler = "set_mode"
             THEN set_mode(mode_config, modes_file, path[1], body)
             ELSE IF handler = "toggle_mode"
             THEN toggle_mode(mode_config, modes_file, path[1])
             ELSE IF handler = "reset_modes"
             THEN reset_modes(mode_config, modes_file)
             ELSE [status |-> 404, config |-> mode_config, file |-> modes_file]
    IN  /\ mode_config' = r.config
        /\ modes_file' = r.file
        /\ saved_config' = IF r.file # modes_file THEN r.config ELSE saved_config
        /\ http' = [path |-> path, body |-> body, status |-> r.status,
                    handler |-> handler]
        /\ mode_op' = "request"
        /\ UNCHANGED <<dagVars, execVars, wsVars, sessVars, convVars, tripVars, sharedVars>>

\* a mode command of the command line: /plan, /auto, /preview ... <arg>
ModeCommand(mode_key, arg) ==
    LET value == str_lower(arg)
        passed == IF mode_key \in {"plan", "preview"} THEN Str(value)
                  ELSE Bool(value = "on")
        r == set(mode_config, modes_file, mode_key, passed)
    IN  /\ value \in MODE_DEFINITIONS[mode_key].allowed_values
        /\ mode_config' = r.config
        /\ modes_file' = r.file
        /\ saved_config' = IF r.success THEN r.config ELSE saved_config
        /\ http' = NoHttp
        /\ mode_op' = "command"
        /\ UNCHANGED <<dagVars, execVars, wsVars, sessVars, convVars, tripVars, sharedVars>>

\* the /reset command after the user confirmed
ResetCommand ==
    /\ mode_config' = DefaultConfig
    /\ modes_file' = {save_to_file(DefaultConfig)}
    /\ saved_config' = DefaultConfig
    /\ http' = NoHttp
    /\ mode_op' = "command"
    /\ UNCHANGED <<dagVars, execVars, wsVars, sessVars, convVars, tripVars, sharedVars>>

\* get_or_create_agent for a new session id: plan off, then auto on
GetOrCreateAgent ==
    LET first == set(mode_config, modes_file, "plan", Str("off"))
        second == set(first.config, first.file, "auto", Str("on"))
    IN  /\ mode_config' = second.config
        /\ modes_file' = second.file
        /\ saved_config' = second.config
        /\ http' = NoHttp
        /\ mode_op' = "agent"
        /\ UNCHANGED <<dagVars, execVars, wsVars, sessVars, convVars, tripVars, sharedVars>>

\* the process ends and a new one constructs the manager: defaults, then
\* the file, then the environment
Restart(env) ==
    LET loaded == load_from_file(DefaultConfig, modes_file)
    IN  /\ mode_config' = load_from_env(loaded, env, 1)
        /\ mode_op' = "restart"
        /\ http' = NoHttp
        /\ UNCHANGED <<modes_file, saved_config>>
        /\ UNCHANGED <<dagVars, execVars, wsVars, sessVars, convVars, tripVars, sharedVars>>

NextModes ==
    \/ \E path \in PostPaths, body \in BodySamples : HttpPost(path, body)
    \/ \E mode_key \in DOMAIN MODE_DEFINITIONS, arg \in ValueSamples :
          ModeCommand(mode_key, arg)
    \/ ResetCommand
    \/ GetOrCreateAgent
    \/ \E env \in EnvSamples : Restart(env)

SpecModes == InitModes /\ [][NextModes]_vars

\* C24: once a configuration was written to the modes file, what
\* _load_from_file builds from the file has the same value for every mode
\* as the configuration that was written.
C24_SavedConfigLoadsBack ==
    modes_file # Absent =>
        load_from_file(DefaultConfig, modes_file) = saved_config

C24_Witness ==
    /\ mode_op = "restart"
    /\ modes_file # Absent
    /\ mode_config = saved_config
    /\ mode_config.plan_mode # DefaultConfig.plan_mode
    /\ mode_config.preview_limit # DefaultConfig.preview_limit
    /\ mode_config.verbose # DefaultConfig.verbose

\* C25: a POST to /api/modes/reset without a body is answered with success
\* and leaves every mode at its default value.
C25_ResetWithoutBodyResets ==
    (http.path = <<"reset">> /\ http.body = {}) =>
        /\ http.status = 200
        /\ mode_config = DefaultConfig

\* the client was sent a "done" for turn t: by the pump, or by the receive
\* loop answering a cancel frame while the turn was in progress
DoneSent(t) ==
    \/ \E i \in DOMAIN sent[t] : sent[t][i].type = "done"
    \/ (transport[t] = "ws" /\ cancelled[t])

\* C29: once a turn's "done" was sent to the client, nothing more of that
\* turn is sent: no further event and no second "done", also when the turn
\* was cancelled or failed.
C29_NothingAfterDone ==
    [][\A t \in Turns : DoneSent(t) => sent'[t] = sent[t]]_vars

(***************************************************************************)
(* SpecShared: the WebSocket connections and the streaming requests that   *)
(* name one session id.  They share the module dictionaries of             *)
(* api/websocket.py, the agent of their transport and its callback holder. *)
(* The coroutines run on one event loop: a pump occupies it from           *)
(* event_queue.get to the next await of send_json.                         *)
(***************************************************************************)

\* f"tc_{session_id}_{step_counter[0]}": the counter is local to the turn
tool_call_id(step) == step

\* a run_chat thread of a turn: its transport and connection, where the
\* thread and its pump are, its event_queue and confirmation Event
NewWorker(tr, conn, at) ==
    [transport |-> tr, conn |-> conn, pc |-> at,
     pump |-> IF at = "task" THEN "task" ELSE "thread",
     queue |-> <<>>, confirmation_event |-> FALSE, tool_called |-> FALSE,
     sub_left |-> MaxSubEvents]

WorkerIds == DOMAIN workers
WorkerSlots == 1..MaxWorkers

\* cancel_flag.is_set() as the callbacks of worker w read it
is_set(w) == workers[w].transport = "ws" /\ ws[workers[w].conn].cancel_flag

\* del d[key] when the key is there
Delete(entries, key) == [k \in DOMAIN entries \ {key} |-> entries[k]]

InitShared ==
    /\ nodes = <<>>
    /\ status = <<>>
    /\ sortResult = NotSorted
    /\ validateErrors = NotValidated
    /\ ExecIdle
    /\ WsIdle
    /\ SessIdle
    /\ ConvIdle
    /\ TripIdle
    /\ ModesIdle
    /\ SharedIdle

\* websocket_chat: accept (the connections are numbered in the order they
\* are accepted), the session's feedback queue is created
WsAccept(c) ==
    /\ loop = 0
    /\ ws[c].state = "closed"
    /\ \A b \in Conns : b < c => ws[b].state # "closed"
    /\ ws' = [ws EXCEPT ![c].state = "open"]
    /\ feedback_queues' = IF feedback_queues.present THEN feedback_queues
                          ELSE [NoEntry EXCEPT !.present = TRUE]
    /\ UNCHANGED <<loop, pending_confirmations, workers, sub_callbacks, client_frames>>
    /\ UNCHANGED <<dagVars, execVars, wsVars, sessVars, convVars, tripVars,
                   modesVars>>

\* frame "user_message" while is_processing is False (otherwise only an
\* error is sent): the task of the turn is created
WsUserMessage(c) ==
    /\ loop = 0
    /\ ws[c].state = "open"
    /\ ~ws[c].is_processing
    /\ Len(workers) < MaxWorkers
    /\ ws' = [ws EXCEPT ![c].is_processing = TRUE, ![c].cancel_flag = FALSE]
    /\ workers' = Append(workers, NewWorker("ws", c, "task"))
    /\ UNCHANGED <<loop, feedback_queues, pending_confirmations,
                   sub_callbacks, client_frames>>
    /\ UNCHANGED <<dagVars, execVars, wsVars, sessVars, convVars, tripVars,
                   modesVars>>

\* process_user_message up to its pump: the confirmation store is created,
\* chat_thread.start()
WsTaskStart(w) ==
    /\ w \in WorkerIds
    /\ loop = 0
    /\ workers[w].pump = "task"
    /\ pending_confirmations' =
           IF pending_confirmations.present THEN pending_confirmations
           ELSE [NoEntry EXCEPT !.present = TRUE]
    /\ workers' = [workers EXCEPT ![w].pc = "start", ![w].pump = "polling"]
    /\ loop' = w
    /\ UNCHANGED <<ws, feedback_queues, sub_callbacks, client_frames>>
    /\ UNCHANGED <<dagVars, execVars, wsVars, sessVars, convVars, tripVars,
                   modesVars>>

\* the pump takes an event and sends it; a send on a connection that ended
\* raises and ends the pump, "done" ends it, on_complete() follows
WsPumpSend(w, yields) ==
    /\ w \in WorkerIds
    /\ loop = w
    /\ workers[w].pump = "polling"
    /\ workers[w].queue # <<>>
    /\ LET event == Head(workers[w].queue)
           c == workers[w].conn
           ends == ws[c].state # "open" \/ event.type = "done"
       IN  /\ workers' = [workers EXCEPT
                            ![w].queue = Tail(@),
                            ![w].pump = IF ends THEN "ended"
                                        ELSE IF yields THEN "sending"
                                        ELSE "polling"]
           /\ loop' = IF ends \/ yields THEN 0 ELSE w
           /\ ws' = IF ends
                    THEN [ws EXCEPT ![c].is_processing = on_complete(@)]
                    ELSE ws
    /\ UNCHANGED <<feedback_queues, pending_confirmations, sub_callbacks, client_frames>>
    /\ UNCHANGED <<dagVars, execVars, wsVars, sessVars, convVars, tripVars,
                   modesVars>>

\* send_json returns, or raises when the connection ended meanwhile
WsPumpResume(w) ==
    /\ w \in WorkerIds
    /\ loop = 0
    /\ workers[w].pump = "sending"
    /\ IF ws[workers[w].conn].state = "open"
       THEN /\ workers' = [workers EXCEPT ![w].pump = "polling"]
            /\ loop' = w
       ELSE /\ workers' = [workers EXCEPT ![w].pump = "ended"]
            /\ loop' = 0
    /\ UNCHANGED <<ws, feedback_queues, pending_confirmations, sub_callbacks, client_frames>>
    /\ UNCHANGED <<dagVars, execVars, wsVars, sessVars, convVars, tripVars,
                   modesVars>>

\* queue.Empty with the cancel flag set: the pump breaks
WsPumpCancelled(w) ==
    /\ w \in WorkerIds
    /\ loop = w
    /\ workers[w].pump = "polling"
    /\ workers[w].queue = <<>>
    /\ ws[workers[w].conn].cancel_flag
    /\ workers' = [workers EXCEPT ![w].pump = "ended"]
    /\ loop' = 0
    /\ ws' = [ws EXCEPT ![workers[w].conn].is_processing = on_complete(@)]
    /\ UNCHANGED <<feedback_queues, pending_confirmations, sub_callbacks, client_frames>>
    /\ UNCHANGED <<dagVars, execVars, wsVars, sessVars, convVars, tripVars,
                   modesVars>>

\* the handler of connection c leaves its loop: the finally block deletes
\* the session's feedback queue and confirmation store
Leave(c) == [ws EXCEPT ![c].state = "ended"]

\* frame "feedback": put on the session's queue and acknowledged; a
\* missing queue raises KeyError, which ends the handler
WsFeedback(c) ==
    /\ loop = 0
    /\ ws[c].state = "open"
    /\ client_frames < MaxClientFrames
    /\ client_frames' = client_frames + 1
    /\ IF feedback_queues.present
       THEN UNCHANGED <<ws, feedback_queues, pending_confirmations>>
       ELSE /\ ws' = Leave(c)
            /\ feedback_queues' = NoEntry
            /\ pending_confirmations' = NoEntry
    /\ UNCHANGED <<loop, workers, sub_callbacks>>
    /\ UNCHANGED <<dagVars, execVars, wsVars, sessVars, convVars, tripVars,
                   modesVars>>

\* frame "decision" naming a stored tool call (otherwise only an error is
\* sent): the decision is stored and the stored Event is set
WsDecision(c, decision, id) ==
    /\ loop = 0
    /\ ws[c].state = "open"
    /\ client_frames < MaxClientFrames
    /\ client_frames' = client_frames + 1
    /\ pending_confirmations.present
    /\ id \in DOMAIN pending_confirmations.entries
    /\ pending_confirmations' =
           [pending_confirmations EXCEPT !.entries[id].decision = decision]
    /\ workers' = [workers EXCEPT
                     ![pending_confirmations.entries[id].owner]
                         .confirmation_event = TRUE]
    /\ UNCHANGED <<ws, loop, feedback_queues, sub_callbacks>>
    /\ UNCHANGED <<dagVars, execVars, wsVars, sessVars, convVars, tripVars,
                   modesVars>>

\* frame "cancel": the flag is set, a message and "done" are sent
WsCancel(c) ==
    /\ loop = 0
    /\ ws[c].state = "open"
    /\ client_frames < MaxClientFrames
    /\ client_frames' = client_frames + 1
    /\ ws' = [ws EXCEPT ![c].cancel_flag = TRUE, ![c].is_processing = FALSE]
    /\ UNCHANGED <<loop, feedback_queues, pending_confirmations, workers,
                   sub_callbacks>>
    /\ UNCHANGED <<dagVars, execVars, wsVars, sessVars, convVars, tripVars,
                   modesVars>>

\* WebSocketDisconnect: the client closed the connection
WsDisconnect(c) ==
    /\ loop = 0
    /\ ws[c].state = "open"
    /\ client_frames < MaxClientFrames
    /\ client_frames' = client_frames + 1
    /\ ws' = Leave(c)
    /\ feedback_queues' = NoEntry
    /\ pending_confirmations' = NoEntry
    /\ UNCHANGED <<loop, workers, sub_callbacks>>
    /\ UNCHANGED <<dagVars, execVars, wsVars, sessVars, convVars, tripVars,
                   modesVars>>

\* POST /api/chat/stream: chat_thread.start(); generate_events runs on a
\* thread of the pool and yields what the queue holds, up to "done"
SsePost ==
    /\ loop = 0
    /\ Len(workers) < MaxWorkers
    /\ workers' = Append(workers, NewWorker("sse", 0, "start"))
    /\ UNCHANGED <<ws, loop, feedback_queues, pending_confirmations,
                   sub_callbacks, client_frames>>
    /\ UNCHANGED <<dagVars, execVars, wsVars, sessVars, convVars, tripVars,
                   modesVars>>

\* run_chat begins: a cancelled WebSocket turn returns at once; otherwise
\* the callbacks of this request are put in the agent's holder, the
\* feedback queue is emptied if it is there and agent.chat_stream is
\* entered
RunChatStart(w) ==
    /\ w \in WorkerIds
    /\ workers[w].pc = "start"
    /\ IF is_set(w)
       THEN /\ workers' = [workers EXCEPT ![w].pc = "finally"]
            /\ UNCHANGED <<sub_callbacks, feedback_queues>>
       ELSE /\ sub_callbacks' =
                  [sub_callbacks EXCEPT ![workers[w].transport] = w]
            /\ UNCHANGED feedback_queues
            /\ workers' = [workers EXCEPT ![w].pc = "chat"]
    /\ UNCHANGED <<ws, loop, pending_confirmations, client_frames>>
    /\ UNCHANGED <<dagVars, execVars, wsVars, sessVars, convVars, tripVars,
                   modesVars>>

\* wrap_tool_call of the monitor during the run of worker w: the callback
\* read from the holder at that moment is called, none when it is None
SubAgentToolCall(w) ==
    /\ w \in WorkerIds
    /\ workers[w].pc = "chat"
    /\ workers[w].sub_left > 0
    /\ LET via == sub_callbacks[workers[w].transport]
           counted == [workers EXCEPT ![w].sub_left = @ - 1]
       IN  workers' =
               IF via = 0 \/ is_set(via) THEN counted
               ELSE [counted EXCEPT ![via].queue =
                        Append(@, [type |-> "subagent_tool_call", by |-> w])]
    /\ UNCHANGED <<ws, loop, feedback_queues, pending_confirmations,
                   sub_callbacks, client_frames>>
    /\ UNCHANGED <<dagVars, execVars, wsVars, sessVars, convVars, tripVars,
                   modesVars>>

\* on_tool_call of a WebSocket turn for a call that needs confirmation (a
\* SQL tool with safe mode on): nothing after a cancel; the call is stored
\* under its tool_call_id and waited for (KeyError when the session's store
\* was deleted)
OnToolCall(w) ==
    /\ w \in WorkerIds
    /\ workers[w].transport = "ws"
    /\ workers[w].pc = "chat"
    /\ ~workers[w].tool_called
    /\ LET id == tool_call_id(1)
           called == [workers EXCEPT ![w].tool_called = TRUE]
       IN  IF is_set(w)
           THEN /\ workers' = called
                /\ UNCHANGED pending_confirmations
           ELSE IF ~pending_confirmations.present
           THEN /\ workers' = [called EXCEPT
                                 ![w].queue = Append(@, [type |-> "error", by |-> w]),
                                 ![w].pc = "finally"]
                /\ UNCHANGED pending_confirmations
           ELSE /\ pending_confirmations' =
                      [pending_confirmations EXCEPT !.entries =
                          [k \in DOMAIN @ \cup {id} |->
                              IF k = id THEN [owner |-> w, decision |-> None]
                              ELSE @[k]]]
                /\ workers' = [called EXCEPT
                                 ![w].queue = Append(@, [type |-> "confirmation_request",
                                                         by |-> w]),
                                 ![w].confirmation_event = FALSE,
                                 ![w].pc = "wait"]
    /\ UNCHANGED <<ws, loop, feedback_queues, sub_callbacks, client_frames>>
    /\ UNCHANGED <<dagVars, execVars, wsVars, sessVars, convVars, tripVars,
                   modesVars>>

\* confirmation_event.wait returned True: the stored decision is read
\* ("reject" when the entry is gone, KeyError when the store is gone)
ConfirmationSet(w) ==
    /\ w \in WorkerIds
    /\ workers[w].pc = "wait"
    /\ workers[w].confirmation_event
    /\ LET id == tool_call_id(1)
           entries == pending_confirmations.entries
           decision == IF id \in DOMAIN entries THEN entries[id].decision
                       ELSE "reject"
       IN  IF ~pending_confirmations.present
           THEN /\ workers' = [workers EXCEPT
                                 ![w].queue = Append(@, [type |-> "error", by |-> w]),
                                 ![w].pc = "finally"]
                /\ UNCHANGED pending_confirmations
           ELSE IF raises_interrupted(TRUE, decision)
           THEN /\ workers' = [workers EXCEPT
                                 ![w].queue = Append(@, [type |-> "message", by |-> w]),
                                 ![w].pc = "finally"]
                /\ UNCHANGED pending_confirmations
           ELSE /\ pending_confirmations' =
                      [pending_confirmations EXCEPT !.entries = Delete(@, id)]
                /\ workers' = [workers EXCEPT
                                 ![w].queue = Append(@, [type |-> "tool_call", by |-> w]),
                                 ![w].pc = "chat"]
    /\ UNCHANGED <<ws, loop, feedback_queues, sub_callbacks, client_frames>>
    /\ UNCHANGED <<dagVars, execVars, wsVars, sessVars, convVars, tripVars,
                   modesVars>>

\* confirmation_event.wait(timeout=300) returned False: InterruptedError
ConfirmationTimeout(w) ==
    /\ w \in WorkerIds
    /\ workers[w].pc = "wait"
    /\ ~workers[w].confirmation_event
    /\ workers' = [workers EXCEPT
                     ![w].queue = Append(@, [type |-> "message", by |-> w]),
                     ![w].pc = "finally"]
    /\ UNCHANGED <<ws, loop, feedback_queues, pending_confirmations,
                   sub_callbacks, client_frames>>
    /\ UNCHANGED <<dagVars, execVars, wsVars, sessVars, convVars, tripVars,
                   modesVars>>

\* agent.chat_stream returns its response
RunChatReturn(w) ==
    /\ w \in WorkerIds
    /\ workers[w].pc = "chat"
    /\ workers' = [workers EXCEPT
                     ![w].queue = Append(@, [type |-> "message", by |-> w]),
                     ![w].pc = "finally"]
    /\ UNCHANGED <<ws, loop, feedback_queues, pending_confirmations,
                   sub_callbacks, client_frames>>
    /\ UNCHANGED <<dagVars, execVars, wsVars, sessVars, convVars, tripVars,
                   modesVars>>

\* the finally block of run_chat: the holder is cleared, "done" is put and
\* the thread ends, its locals with it
RunChatFinally(w) ==
    /\ w \in WorkerIds
    /\ workers[w].pc = "finally"
    /\ sub_callbacks' = [sub_callbacks EXCEPT ![workers[w].transport] = 0]
    /\ workers' = [workers EXCEPT
                     ![w].queue = Append(@, [type |-> "done", by |-> w]),
                     ![w].tool_called = FALSE,
                     ![w].sub_left = 0,
                     ![w].pc = "done"]
    /\ UNCHANGED <<ws, loop, feedback_queues, pending_confirmations,
                   client_frames>>
    /\ UNCHANGED <<dagVars, execVars, wsVars, sessVars, convVars, tripVars,
                   modesVars>>

NextShared ==
    \/ \E c \in Conns : WsAccept(c)
    \/ \E c \in Conns : WsUserMessage(c)
    \/ \E c \in Conns : WsFeedback(c)
    \/ \E c \in Conns, decision \in {"approve", "reject"} :
          WsDecision(c, decision, tool_call_id(1))
    \/ \E c \in Conns : WsCancel(c)
    \/ \E c \in Conns : WsDisconnect(c)
    \/ SsePost
    \/ \E w \in WorkerSlots : WsTaskStart(w)
    \/ \E w \in WorkerSlots, yields \in BOOLEAN : WsPumpSend(w, yields)
    \/ \E w \in WorkerSlots : WsPumpResume(w)
    \/ \E w \in WorkerSlots : WsPumpCancelled(w)
    \/ \E w \in WorkerSlots : RunChatStart(w)
    \/ \E w \in WorkerSlots : SubAgentToolCall(w)
    \/ \E w \in WorkerSlots : OnToolCall(w)
    \/ \E w \in WorkerSlots : ConfirmationSet(w)
    \/ \E w \in WorkerSlots : ConfirmationTimeout(w)
    \/ \E w \in WorkerSlots : RunChatReturn(w)
    \/ \E w \in WorkerSlots : RunChatFinally(w)

SpecShared == InitShared /\ [][NextShared]_vars

\* C26: every sub-agent tool event produced while a request is served is
\* put on that request's own event stream: never on another request's, and
\* never lost because the holder was cleared or set by another request.
C26_SubAgentEventsReachTheirOwnStream ==
    [][\A w \in WorkerIds :
          (/\ workers[w].pc = "chat" /\ workers'[w].pc = "chat"
           /\ workers'[w].sub_left < workers[w].sub_left
           /\ ~is_set(w)) =>
              /\ sub_callbacks[workers[w].transport] = w
              /\ workers'[w].queue =
                     Append(workers[w].queue,
                            [type |-> "subagent_tool_call", by |-> w])]_vars

\* the turn of worker w is in progress: its thread has not reached the end
\* of agent.chat_stream and the turn was not cancelled
InProgress(w) == workers[w].pc \in {"start", "chat", "wait"} /\ ~is_set(w)

\* C27: when a connection closes, the other open connections with the same
\* session id keep what their turns in progress need: the feedback queue that accepts
\* their feedback frames and the stored confirmations their decision frames
\* resolve.
C27_ClosingOneConnectionLeavesTheOthers ==
    [][\A c \in Conns :
          (ws[c].state = "open" /\ ws'[c].state = "ended") =>
              \A d \in Conns \ {c} :
                  ws[d].state = "open" =>
                      \A w \in WorkerIds :
                          (workers[w].conn = d /\ InProgress(w)) =>
                              /\ feedback_queues'.present
                              /\ workers[w].pc = "wait" =>
                                    /\ pending_confirmations'.present
                                    /\ tool_call_id(1) \in
                                         DOMAIN pending_confirmations'.entries]_vars

\* C28: at most one worker at a time is inside chat_stream on the agent of
\* a session.
C28_OneWorkerPerAgent ==
    \A tr \in Transports :
        Cardinality({ w \in WorkerIds :
                        /\ workers[w].transport = tr
                        /\ workers[w].pc \in {"chat", "wait"} }) <= 1

====
